---- MODULE Spec2Model ----
(***************************************************************************)
(* Model of the PDF ingestion pipeline (backend/preprocess.js): the        *)
(* embedding client with its retry loop, the batch uploader, the           *)
(* per-document task and the run over document batches.  Remote services   *)
(* (embedding API, vector index, PDF text extraction, text splitter) are   *)
(* the environment: every call to them resolves nondeterministically.      *)
(***************************************************************************)
EXTENDS Integers, Sequences, FiniteSets, TLC

\* ---------------------------------------------------------------- constants
BATCH_SIZE == 2
CHUNK_BATCH_SIZE == 10
MAX_RETRIES == 3
MAX_PDFS == 5
MinTextLength == 100
EmbedBackoffMs == 1000
WriteBackoffMs == 1000
PaceMs == 1000
ChunkGapMs == 100
BatchPauseMs == 2000

\* ------------------------------------------------------------------- bounds
\* number of directory entries considered (prefixes of FileTable)
MaxDirEntries == 4
\* largest number of chunks of all documents of one run together
MaxCorpusChunks == 12

\* ------------------------------------------------------- directory contents
\* File names as sequences of characters.
FileTable ==
  << <<"n", ".", "t", "x", "t">>,
     <<"b", "_", "x", ".", "P", "D", "F">>,
     <<"a", ".", "p", "d", "f">>,
     <<"c", ".", "P", "d", "f">>,
     <<"c", ".", "t", "x", "t">>,
     <<"B", ".", "p", "d", "f">>,
     <<"d", ".", "p", "d", "f">>,
     <<"x", ".", "p", "d", "f">>,
     <<"t", "_", "t", ".", "P", "D", "F">> >>

\* Characters in UTF-16 code unit order (the order of Array.prototype.sort).
Alphabet ==
  <<".", "B", "D", "F", "P", "_", "a", "b", "c", "d", "f", "n", "p", "t", "x">>

Code(c) == CHOOSE k \in 1..Len(Alphabet) : Alphabet[k] = c

ToLower(c) ==
  CASE c = "B" -> "b" [] c = "D" -> "d" [] c = "F" -> "f" [] c = "P" -> "p"
    [] OTHER -> c

LowerName(s) == [k \in 1..Len(s) |-> ToLower(s[k])]

EndsWith(s, suf) ==
  /\ Len(s) >= Len(suf)
  /\ SubSeq(s, Len(s) - Len(suf) + 1, Len(s)) = suf

\* f.toLowerCase().endsWith('.pdf')
IsPdfName(s) == EndsWith(LowerName(s), <<".", "p", "d", "f">>)

\* s < t in code unit order
RECURSIVE StrLess(_, _)
StrLess(s, t) ==
  IF t = <<>> THEN FALSE
  ELSE IF s = <<>> THEN TRUE
  ELSE IF Code(Head(s)) # Code(Head(t)) THEN Code(Head(s)) < Code(Head(t))
  ELSE StrLess(Tail(s), Tail(t))

\* the sorted sequence of a set of file indices
RECURSIVE SortFiles(_)
SortFiles(S) ==
  IF S = {} THEN <<>>
  ELSE LET m == CHOOSE x \in S :
                  \A y \in S \ {x} : StrLess(FileTable[x], FileTable[y])
       IN <<m>> \o SortFiles(S \ {m})

Take(s, n) == SubSeq(s, 1, IF Len(s) < n THEN Len(s) ELSE n)

\* faulty variant of ListPDFs: the list is not cut at MAX_PDFS
ListPDFs_Uncapped(dir) == SortFiles({x \in dir : IsPdfName(FileTable[x])})

\* readdirSync(pdfDir).filter(...).sort().slice(0, MAX_PDFS)
ListPDFs(dir) ==
  Take(SortFiles({x \in dir : IsPdfName(FileTable[x])}), MAX_PDFS)

Directories == {1..n : n \in 0..MaxDirEntries}

ApiKeys == {"missing", "placeholder", "valid"}

\* !GEMINI_API_KEY || GEMINI_API_KEY.includes('your-actual-...')
KeyInvalid(k) == k = "missing" \/ k = "placeholder"

\* trimmed lengths of the text pdf-parse may return (0: no text at all)
TrimLens == {0, MinTextLength - 1, MinTextLength}

\* numbers of chunks the splitter may return for one document: none, less
\* than a sub-batch, more than a sub-batch
ChunkCounts == {0, 1, 2, CHUNK_BATCH_SIZE + 1}

Min(a, b) == IF a < b THEN a ELSE b

\* -------------------------------------------------------------------- state
VARIABLES
  apiKey,           \* GEMINI_API_KEY: "missing", "placeholder" or "valid"
  dirExists,        \* fs.existsSync(pdfDir)
  dir,              \* the directory's entries (indices into FileTable)
  pc,               \* position of main / processPDFs
  index,            \* the vector index: does the collection exist, and its ids
  collection,       \* the module variable `collection`: "unset" or "handle"
  allFiles,         \* the selected file names, sorted and capped
  i,                \* loop variable of the batch loop in processPDFs
  task,             \* one processPDF task per selected file
  processedCount,
  successLog,
  errorLog,
  totalChunksAdded,
  keyChecks,        \* where the credential check has been evaluated so far
  initLog,          \* outcomes of deleteCollection and createCollection
  q                 \* the request to POST /api/query being served

vars == <<apiKey, dirExists, dir, pc, index, collection, allFiles, i, task,
          processedCount, successLog, errorLog, totalChunksAdded, keyChecks,
          initLog, q>>

\* no request: the ingestion script serves none
NoQuery == [pc |-> "none"]

StaleIds == {<<0, 0>>}

NoResult ==
  [success |-> FALSE, fileName |-> 0, error |-> "none",
   chunksProcessed |-> 0, totalChunks |-> 0]

\* a processPDF call that has not started
IdleTask ==
  [pc |-> "idle", fileName |-> 0, textLen |-> -1, nChunks |-> 0,
   start |-> 0, totalAdded |-> 0,
   size |-> 0, ci |-> 0, retries |-> 0, calls |-> 0, embedded |-> 0,
   wretries |-> 0, adds |-> 0, sleepMs |-> 0,
   batchAdded |-> -1, batches |-> 0, anyCall |-> FALSE, anyFail |-> FALSE,
   result |-> NoResult]

Init ==
  /\ apiKey \in ApiKeys
  /\ dirExists \in BOOLEAN
  /\ dir \in Directories
  /\ pc = "main"
  /\ index \in {[exists |-> FALSE, ids |-> {}], [exists |-> TRUE, ids |-> StaleIds]}
  /\ collection = "unset"
  /\ allFiles = <<>>
  /\ i = 0
  /\ task = <<>>
  /\ processedCount = 0
  /\ successLog = <<>>
  /\ errorLog = <<>>
  /\ totalChunksAdded = 0
  /\ keyChecks = {}
  /\ initLog = [delete |-> "none", create |-> "none"]
  /\ q = NoQuery

\* ------------------------------------------------ processPDF, as functions
\* the catch block of processPDF (lines 173-181)
PdfFailed(t, msg) ==
  [t EXCEPT !.pc = "done", !.sleepMs = 0,
            !.result = [success |-> FALSE, fileName |-> t.fileName,
                        error |-> msg, chunksProcessed |-> 0,
                        totalChunks |-> 0]]

\* lines 164-171: every sub-batch has reported
PdfSucceeded(t) ==
  [t EXCEPT !.pc = "done", !.sleepMs = 0,
            !.result = [success |-> TRUE, fileName |-> t.fileName,
                        error |-> "none", chunksProcessed |-> t.totalAdded,
                        totalChunks |-> t.nChunks]]

\* processChunkBatch has returned n to the loop of processPDF (lines 155-162)
ChunkBatchReturned(t, n) ==
  LET t1 == [t EXCEPT !.totalAdded = @ + n, !.batchAdded = n,
                      !.batches = @ + 1,
                      !.anyFail = @ \/ (n = 0)]
  IN IF t.start + CHUNK_BATCH_SIZE < t.nChunks
     THEN [t1 EXCEPT !.pc = "gap", !.sleepMs = ChunkGapMs]
     ELSE PdfSucceeded(t1)

\* faulty variants of EmbedCatch
\* ... reporting the embeddings already generated
EmbedCatch_Partial(t) ==
  IF t.retries < MAX_RETRIES
  THEN [t EXCEPT !.pc = "backoff",
                 !.sleepMs = EmbedBackoffMs * (t.retries + 1)]
  ELSE ChunkBatchReturned(t, t.embedded)

\* ... retrying once more
EmbedCatch_OneMore(t) ==
  IF t.retries <= MAX_RETRIES
  THEN [t EXCEPT !.pc = "backoff",
                 !.sleepMs = EmbedBackoffMs * (t.retries + 1)]
  ELSE ChunkBatchReturned(t, 0)

\* ... backing off exponentially
EmbedCatch_Exponential(t) ==
  IF t.retries < MAX_RETRIES
  THEN [t EXCEPT !.pc = "backoff",
                 !.sleepMs = EmbedBackoffMs * (2 ^ t.retries)]
  ELSE ChunkBatchReturned(t, 0)

\* ... writing the chunks embedded so far
EmbedCatch_WritesPartial(t) ==
  IF t.retries < MAX_RETRIES
  THEN [t EXCEPT !.pc = "backoff",
                 !.sleepMs = EmbedBackoffMs * (t.retries + 1)]
  ELSE [t EXCEPT !.pc = "add", !.adds = @ + 1, !.sleepMs = 0,
                 !.anyCall = TRUE]

\* the catch block of generateEmbedding (lines 74-82); a final failure is
\* rethrown at line 219 and turned into 0 at lines 247-250
EmbedCatch(t) ==
  IF t.retries < MAX_RETRIES
  THEN [t EXCEPT !.pc = "backoff",
                 !.sleepMs = EmbedBackoffMs * (t.retries + 1)]
  ELSE ChunkBatchReturned(t, 0)

\* generateEmbedding(text, t.retries) up to its first suspension
\* (lines 53-71)
StartEmbed(t, key) ==
  IF KeyInvalid(key)
  THEN EmbedCatch(t)
  ELSE [t EXCEPT !.pc = "embed", !.calls = @ + 1, !.sleepMs = 0,
                 !.anyCall = TRUE]

\* processChunkBatch(docs.slice(s, s + CHUNK_BATCH_SIZE), fileName, s) up to
\* its first suspension (lines 185-209)
BeginChunkBatch(t, s, key) ==
  StartEmbed([t EXCEPT !.start = s,
                       !.size = Min(CHUNK_BATCH_SIZE, t.nChunks - s),
                       !.ci = 0, !.retries = 0, !.calls = 0,
                       !.embedded = 0, !.wretries = 0, !.adds = 0,
                       !.batchAdded = -1], key)

\* collection.add is issued (lines 226-234)
StartAdd(t) ==
  [t EXCEPT !.pc = "add", !.adds = @ + 1, !.sleepMs = 0, !.anyCall = TRUE]

\* variant of the ids that numbers the chunks within the sub-batch
ChunkId_Local(t, idx) == <<t.fileName, idx>>

\* `${fileName}_chunk_${startIndex + idx}` (line 189), as the pair of the
\* file and the number
ChunkId(t, idx) == <<t.fileName, t.start + idx>>

\* the ids of the sub-batch in flight (line 189)
BatchIds(t) == {ChunkId(t, k) : k \in 0..(t.size - 1)}

\* faulty variant of EmbedResolved: the pacing sleep follows every embedding
EmbedResolved_AlwaysPaces(t) ==
  [t EXCEPT !.embedded = @ + 1, !.pc = "pace", !.sleepMs = PaceMs]

\* the embedding arrived: lines 210-216, then the write at line 226
EmbedResolved(t) ==
  LET t1 == [t EXCEPT !.embedded = @ + 1]
  IN IF t.ci < t.size - 1
     THEN [t1 EXCEPT !.pc = "pace", !.sleepMs = PaceMs]
     ELSE StartAdd(t1)

\* the catch block of the write loop (lines 238-245)
AddCatch(t) ==
  LET r == t.wretries + 1
  IN IF r >= MAX_RETRIES
     THEN ChunkBatchReturned([t EXCEPT !.wretries = r], 0)
     ELSE [t EXCEPT !.wretries = r, !.pc = "wbackoff",
                    !.sleepMs = WriteBackoffMs * r]

\* faulty variant of AddResolved: the sub-batch reports the chunks of the
\* whole document
AddResolved_ReportsDocument(t) == ChunkBatchReturned(t, t.nChunks)

\* collection.add succeeded (lines 236-237)
AddResolved(t) == ChunkBatchReturned(t, t.size)

\* faulty variant of TextChecked: only a missing text is rejected
TextChecked_NoMinimum(t, len) ==
  IF len = 0
  THEN PdfFailed([t EXCEPT !.textLen = len], "No significant text found in PDF")
  ELSE [t EXCEPT !.textLen = len, !.pc = "split"]

\* lines 127-131: the check of the extracted text
TextChecked(t, len) ==
  IF len < MinTextLength
  THEN PdfFailed([t EXCEPT !.textLen = len], "No significant text found in PDF")
  ELSE [t EXCEPT !.textLen = len, !.pc = "split"]

\* lines 145-155: the check of the chunk list, then the first sub-batch
ChunksChecked(t, n, key) ==
  IF n = 0
  THEN PdfFailed([t EXCEPT !.nChunks = n], "No chunks created from PDF")
  ELSE BeginChunkBatch([t EXCEPT !.nChunks = n], 0, key)

\* processPDF(filePath, fileName, ...) up to its first suspension
\* (lines 119-125): readFileSync is synchronous
StartPdf(name, readOk) ==
  IF readOk
  THEN [IdleTask EXCEPT !.pc = "parse", !.fileName = name]
  ELSE PdfFailed([IdleTask EXCEPT !.fileName = name], "read error")

\* --------------------------------------------------------------- processPDFs
\* faulty variant of BatchOf: the batch is not cut at BATCH_SIZE
BatchOf_Unbounded(files, b) == (b + 1)..Len(files)

\* faulty variant of BatchOf: one file more than BATCH_SIZE
BatchOf_OneMore(files, b) == (b + 1)..Min(b + BATCH_SIZE + 1, Len(files))

\* positions (1-based) of the files of the batch that starts at index b
BatchOf(files, b) == (b + 1)..Min(b + BATCH_SIZE, Len(files))

\* batch.map(...) at lines 294-296: every task of the batch runs up to its
\* first suspension
StartBatch(tasks, files, b, reads) ==
  [k \in DOMAIN tasks |->
     IF k \in BatchOf(files, b) THEN StartPdf(files[k], reads[k]) ELSE tasks[k]]

\* faulty variant of Tally: only successes are counted as processed
RECURSIVE Tally_SuccessOnly(_, _)
Tally_SuccessOnly(stats, results) ==
  IF results = <<>> THEN stats
  ELSE LET r == Head(results)
           s1 == IF r.success
                 THEN [stats EXCEPT !.processed = @ + 1,
                                    !.success = Append(@, r),
                                    !.chunks = @ + r.chunksProcessed]
                 ELSE [stats EXCEPT !.errors = Append(@, r)]
       IN Tally_SuccessOnly(s1, Tail(results))

\* faulty variant of Tally: the results are taken from the last to the first
RECURSIVE Tally_Reversed(_, _)
Tally_Reversed(stats, results) ==
  IF results = <<>> THEN stats
  ELSE LET r == results[Len(results)]
           s1 == IF r.success
                 THEN [stats EXCEPT !.processed = @ + 1,
                                    !.success = Append(@, r),
                                    !.chunks = @ + r.chunksProcessed]
                 ELSE [stats EXCEPT !.processed = @ + 1,
                                    !.errors = Append(@, r)]
       IN Tally_Reversed(s1, SubSeq(results, 1, Len(results) - 1))

\* lines 300-311, over the results of the batch in the batch's order
RECURSIVE Tally(_, _)
Tally(stats, results) ==
  IF results = <<>> THEN stats
  ELSE LET r == Head(results)
           s1 == IF r.success
                 THEN [stats EXCEPT !.processed = @ + 1,
                                    !.success = Append(@, r),
                                    !.chunks = @ + r.chunksProcessed]
                 ELSE [stats EXCEPT !.processed = @ + 1,
                                    !.errors = Append(@, r)]
       IN Tally(s1, Tail(results))

\* a task whose result has been consumed: its locals are dead
Retired(t) ==
  [IdleTask EXCEPT !.pc = "done", !.fileName = t.fileName,
                   !.nChunks = t.nChunks, !.anyCall = t.anyCall,
                   !.anyFail = t.anyFail, !.result = t.result]

BatchResults(b) ==
  [k \in 1..(Min(b + BATCH_SIZE, Len(allFiles)) - b) |-> task[b + k].result]

\* faulty variant of MainKeyInvalid: main does not validate the credential
MainKeyInvalid_Skipped(key) == FALSE

\* faulty variant of MainKeyInvalid: the placeholder is taken for a key
MainKeyInvalid_MissingOnly(key) == key = "missing"

\* line 374
MainKeyInvalid(key) == KeyInvalid(key)

Exits == {"x_config", "x_create", "x_nodir", "x_nopdfs", "x_summary", "x_count"}

\* the status passed to process.exit
ExitCode(p) == IF p \in {"x_nopdfs", "x_summary"} THEN 0 ELSE 1

ProcUnchanged ==
  UNCHANGED <<apiKey, dirExists, dir, allFiles, i, processedCount,
              successLog, errorLog, totalChunksAdded, q>>

\* faulty variant of Main: the directory is checked before the collection is
\* reset
Main_ChecksDirectoryFirst ==
  /\ pc = "main"
  /\ keyChecks' = keyChecks \cup {"main"}
  /\ pc' = IF MainKeyInvalid(apiKey) THEN "x_config"
           ELSE IF ~dirExists THEN "x_nodir" ELSE "delete"
  /\ UNCHANGED <<index, collection, task, initLog>>
  /\ ProcUnchanged

\* main (lines 362-378) up to deleteCollection (line 97)
Main ==
  /\ pc = "main"
  /\ keyChecks' = keyChecks \cup {"main"}
  /\ pc' = IF MainKeyInvalid(apiKey) THEN "x_config" ELSE "delete"
  /\ UNCHANGED <<index, collection, task, initLog>>
  /\ ProcUnchanged

\* deleteCollection succeeded (line 98); createCollection is issued
DeleteOK ==
  /\ pc = "delete"
  /\ index.exists
  /\ index' = [exists |-> FALSE, ids |-> {}]
  /\ initLog' = [initLog EXCEPT !.delete = "ok"]
  /\ pc' = "create"
  /\ UNCHANGED <<collection, task, keyChecks>>
  /\ ProcUnchanged

\* faulty variant of DeleteFail: the failure of deleteCollection is not caught
DeleteFail_Aborts ==
  /\ pc = "delete"
  /\ initLog' = [initLog EXCEPT !.delete = "fail"]
  /\ pc' = "x_create"
  /\ UNCHANGED <<index, collection, task, keyChecks>>
  /\ ProcUnchanged

\* deleteCollection failed (lines 99-101); createCollection is issued
DeleteFail ==
  /\ pc = "delete"
  /\ initLog' = [initLog EXCEPT !.delete = "fail"]
  /\ pc' = "create"
  /\ UNCHANGED <<index, collection, task, keyChecks>>
  /\ ProcUnchanged

\* createCollection failed (lines 112-115, 349-352, 380-383)
CreateFail ==
  /\ pc = "create"
  /\ initLog' = [initLog EXCEPT !.create = "fail"]
  /\ pc' = "x_create"
  /\ UNCHANGED <<index, collection, task, keyChecks>>
  /\ ProcUnchanged

\* createCollection succeeded; lines 106-111 and 258-297 up to Promise.all
CreateOK ==
  /\ pc = "create"
  /\ ~index.exists
  /\ index' = [exists |-> TRUE, ids |-> {}]
  /\ collection' = "handle"
  /\ initLog' = [initLog EXCEPT !.create = "ok"]
  /\ IF ~dirExists
     THEN /\ pc' = "x_nodir"
          /\ UNCHANGED <<allFiles, task>>
     ELSE /\ allFiles' = ListPDFs(dir)
          /\ IF allFiles' = <<>>
             THEN /\ pc' = "x_nopdfs"
                  /\ task' = task
             ELSE /\ pc' = "batch"
                  /\ \E reads \in [DOMAIN allFiles' -> BOOLEAN] :
                       /\ \A k \in DOMAIN reads :
                            k \notin BatchOf(allFiles', 0) => reads[k]
                       /\ task' = StartBatch([k \in DOMAIN allFiles' |-> IdleTask],
                                             allFiles', 0, reads)
  /\ UNCHANGED <<apiKey, dirExists, dir, i, processedCount, successLog,
                 errorLog, totalChunksAdded, keyChecks, q>>

InBatch(k) == pc = "batch" /\ k \in BatchOf(allFiles, i)

TaskStep(k, t) ==
  /\ task' = [task EXCEPT ![k] = t]
  /\ UNCHANGED <<pc, collection, initLog>>
  /\ ProcUnchanged

\* pdfParse resolved with a text of trimmed length len
ParseOK(k) ==
  /\ InBatch(k) /\ task[k].pc = "parse"
  /\ \E len \in TrimLens : TaskStep(k, TextChecked(task[k], len))
  /\ UNCHANGED <<index, keyChecks>>

ParseFail(k) ==
  /\ InBatch(k) /\ task[k].pc = "parse"
  /\ TaskStep(k, PdfFailed(task[k], "parse error"))
  /\ UNCHANGED <<index, keyChecks>>

\* the chunks produced so far in this run
RECURSIVE ChunksOf(_)
ChunksOf(tasks) ==
  IF tasks = <<>> THEN 0 ELSE Head(tasks).nChunks + ChunksOf(Tail(tasks))

\* createDocuments resolved with n chunks
SplitOK(k) ==
  /\ InBatch(k) /\ task[k].pc = "split"
  /\ \E n \in ChunkCounts :
       /\ ChunksOf(task) + n <= MaxCorpusChunks
       /\ TaskStep(k, ChunksChecked(task[k], n, apiKey))
       /\ keyChecks' = IF n = 0 THEN keyChecks
                       ELSE keyChecks \cup {"generateEmbedding"}
  /\ UNCHANGED index

SplitFail(k) ==
  /\ InBatch(k) /\ task[k].pc = "split"
  /\ TaskStep(k, PdfFailed(task[k], "split error"))
  /\ UNCHANGED <<index, keyChecks>>

\* the embedding request resolved with a vector
EmbedOK(k) ==
  /\ InBatch(k) /\ task[k].pc = "embed"
  /\ TaskStep(k, EmbedResolved(task[k]))
  /\ UNCHANGED <<index, keyChecks>>

\* the embedding request failed, timed out or returned a malformed payload
EmbedFail(k) ==
  /\ InBatch(k) /\ task[k].pc = "embed"
  /\ TaskStep(k, EmbedCatch(task[k]))
  /\ UNCHANGED <<index, keyChecks>>

\* the backoff sleep of line 77 is over: generateEmbedding(text, retries + 1)
BackoffDone(k) ==
  /\ InBatch(k) /\ task[k].pc = "backoff"
  /\ TaskStep(k, StartEmbed([task[k] EXCEPT !.retries = @ + 1], apiKey))
  /\ keyChecks' = keyChecks \cup {"generateEmbedding"}
  /\ UNCHANGED index

\* the pacing sleep of line 215 is over: the next chunk is embedded
PaceDone(k) ==
  /\ InBatch(k) /\ task[k].pc = "pace"
  /\ TaskStep(k, StartEmbed([task[k] EXCEPT !.ci = @ + 1, !.retries = 0,
                                            !.calls = 0], apiKey))
  /\ keyChecks' = keyChecks \cup {"generateEmbedding"}
  /\ UNCHANGED index

\* collection.add succeeded: the whole sub-batch is in the index
AddOK(k) ==
  /\ InBatch(k) /\ task[k].pc = "add"
  /\ index.exists
  /\ index' = [index EXCEPT !.ids = @ \cup BatchIds(task[k])]
  /\ TaskStep(k, AddResolved(task[k]))
  /\ UNCHANGED keyChecks

\* collection.add failed: nothing is written
AddFail(k) ==
  /\ InBatch(k) /\ task[k].pc = "add"
  /\ TaskStep(k, AddCatch(task[k]))
  /\ UNCHANGED <<index, keyChecks>>

\* the backoff sleep of line 244 is over: collection.add is issued again
WBackoffDone(k) ==
  /\ InBatch(k) /\ task[k].pc = "wbackoff"
  /\ TaskStep(k, StartAdd(task[k]))
  /\ UNCHANGED <<index, keyChecks>>

\* the sleep of line 160 is over: the next sub-batch starts
GapDone(k) ==
  /\ InBatch(k) /\ task[k].pc = "gap"
  /\ TaskStep(k, BeginChunkBatch(task[k], task[k].start + CHUNK_BATCH_SIZE,
                                 apiKey))
  /\ keyChecks' = keyChecks \cup {"generateEmbedding"}
  /\ UNCHANGED index

\* Promise.all resolved (line 297): lines 300-322, or 326-329 after the
\* last batch
BatchDone ==
  /\ pc = "batch"
  /\ \A k \in BatchOf(allFiles, i) : task[k].pc = "done"
  /\ LET st == Tally([processed |-> processedCount, success |-> successLog,
                      errors |-> errorLog, chunks |-> totalChunksAdded],
                     BatchResults(i))
     IN /\ processedCount' = st.processed
        /\ successLog' = st.success
        /\ errorLog' = st.errors
        /\ totalChunksAdded' = st.chunks
  /\ task' = [k \in DOMAIN task |->
                IF k \in BatchOf(allFiles, i) THEN Retired(task[k])
                ELSE task[k]]
  /\ pc' = IF i + BATCH_SIZE < Len(allFiles) THEN "pause" ELSE "count"
  /\ UNCHANGED <<apiKey, dirExists, dir, index, collection, allFiles, i,
                 keyChecks, initLog, q>>

\* the sleep of line 321 is over: the next batch starts
PauseDone ==
  /\ pc = "pause"
  /\ i' = i + BATCH_SIZE
  /\ pc' = "batch"
  /\ \E reads \in [DOMAIN allFiles -> BOOLEAN] :
       /\ \A k \in DOMAIN reads : k \notin BatchOf(allFiles, i') => reads[k]
       /\ task' = StartBatch(task, allFiles, i', reads)
  /\ UNCHANGED <<apiKey, dirExists, dir, index, collection, allFiles,
                 processedCount, successLog, errorLog, totalChunksAdded,
                 keyChecks, initLog, q>>

\* collection.count() resolved: the summary of lines 330-347, then exit(0)
CountOK ==
  /\ pc = "count"
  /\ pc' = "x_summary"
  /\ UNCHANGED <<index, collection, task, keyChecks, initLog>>
  /\ ProcUnchanged

\* collection.count() failed: lines 349-352 and 380-383
CountFail ==
  /\ pc = "count"
  /\ pc' = "x_count"
  /\ UNCHANGED <<index, collection, task, keyChecks, initLog>>
  /\ ProcUnchanged

Files == 1..MAX_PDFS

Next ==
  \/ Main
  \/ DeleteOK
  \/ DeleteFail
  \/ CreateOK
  \/ CreateFail
  \/ \E k \in Files : ParseOK(k)
  \/ \E k \in Files : ParseFail(k)
  \/ \E k \in Files : SplitOK(k)
  \/ \E k \in Files : SplitFail(k)
  \/ \E k \in Files : EmbedOK(k)
  \/ \E k \in Files : EmbedFail(k)
  \/ \E k \in Files : BackoffDone(k)
  \/ \E k \in Files : PaceDone(k)
  \/ \E k \in Files : AddOK(k)
  \/ \E k \in Files : AddFail(k)
  \/ \E k \in Files : WBackoffDone(k)
  \/ \E k \in Files : GapDone(k)
  \/ BatchDone
  \/ PauseDone
  \/ CountOK
  \/ CountFail

Spec == Init /\ [][Next]_vars

\* every pending request and every timer eventually resolves
FairSpec == Spec /\ WF_vars(Next)

\* ------------------------------------------------------------------ claims
Tasks == DOMAIN task

\* the sub-batch of task k has reported and the next one has not started
Reported(k) == task[k].batchAdded # -1

\* the ids written for file name f
IdsOf(f) == {e \in index.ids : e[1] = f}

\* the results recorded in a log, as a function of the position
Names(log) == [n \in DOMAIN log |-> log[n].fileName]

\* C1: the count a sub-batch reports is 0 or the size of the sub-batch, and
\* it is the size only if every chunk was embedded and one write that holds
\* all chunks of the sub-batch succeeded.
C1_AllOrNothing ==
  \A k \in Tasks :
    Reported(k) =>
      /\ task[k].batchAdded \in {0, task[k].size}
      /\ task[k].batchAdded = task[k].size =>
           /\ task[k].embedded = task[k].size
           /\ task[k].adds >= 1
           /\ BatchIds(task[k]) \subseteq index.ids

C1_Witness ==
  \E k \in Tasks :
    /\ Reported(k)
    /\ task[k].size = CHUNK_BATCH_SIZE
    /\ task[k].batchAdded = CHUNK_BATCH_SIZE
    /\ task[k].wretries > 0

\* the run has entered the batch loop
Started == task # <<>>

StatsComplete ==
  /\ processedCount = Len(allFiles)
  /\ processedCount = Len(successLog) + Len(errorLog)
  /\ \A k \in Tasks :
       Cardinality({n \in DOMAIN successLog : successLog[n].fileName = allFiles[k]})
       + Cardinality({n \in DOMAIN errorLog : errorLog[n].fileName = allFiles[k]})
       = 1

\* C2 (as claimed): once documents are being processed the run never
\* aborts and ends in the final summary with complete statistics.
C2_NeverAborts ==
  (Started /\ pc \in Exits) => (pc = "x_summary" /\ StatsComplete)

\* Upper bounds on the steps that remain: of one embedding with `r` retries
\* made, of one write with `w` failures caught, of `rem` chunks whose
\* sub-batches have not started, of a task and of the run.
EmbedRank(r) == 2 * (MAX_RETRIES - r) + 1

WriteRank(w) == 2 * (MAX_RETRIES - 1 - w) + 1

ChunkRank == 1 + EmbedRank(0)

RestRank(rem) ==
  rem * ChunkRank
  + ((rem + CHUNK_BATCH_SIZE - 1) \div CHUNK_BATCH_SIZE) * (1 + WriteRank(0))

MaxDocChunks == CHOOSE n \in ChunkCounts : \A m \in ChunkCounts : m <= n

TaskRank(t) ==
  LET after == RestRank(t.nChunks - t.start - t.size)
      tail == (t.size - 1 - t.ci) * ChunkRank + WriteRank(0) + after
  IN CASE t.pc = "idle" -> 3 + RestRank(MaxDocChunks)
       [] t.pc = "parse" -> 2 + RestRank(MaxDocChunks)
       [] t.pc = "split" -> 1 + RestRank(MaxDocChunks)
       [] t.pc = "embed" -> EmbedRank(t.retries) + tail
       [] t.pc = "backoff" -> 1 + EmbedRank(t.retries + 1) + tail
       [] t.pc = "pace" -> tail
       [] t.pc = "add" -> WriteRank(t.wretries) + after
       [] t.pc = "wbackoff" -> 1 + WriteRank(t.wretries) + after
       [] t.pc = "gap" -> after
       [] OTHER -> 0

RECURSIVE TasksRank(_)
TasksRank(tasks) ==
  IF tasks = <<>> THEN 0 ELSE TaskRank(Head(tasks)) + TasksRank(Tail(tasks))

TopRank == MAX_PDFS * (3 + RestRank(MaxDocChunks)) + 2 * MAX_PDFS + 3

RunRank ==
  TasksRank(task)
  + CASE pc = "main" -> TopRank + 2
      [] pc = "delete" -> TopRank + 1
      [] pc = "create" -> TopRank
      [] pc = "batch" -> 2 * (Len(allFiles) - i) + 2
      [] pc = "pause" -> 2 * (Len(allFiles) - i) + 1
      [] pc = "count" -> 1
      [] OTHER -> 0

\* C2 (amended): no outcome of a document aborts the run; every selected
\* document is processed and recorded exactly once, the run reaches the
\* final count of the collection with processed = succeeded + failed =
\* number of selected documents, and it ends in the summary unless that
\* count fails.  The run is never stuck before it exits and every step
\* brings it closer to the exit, so it does reach it.
C2_ReachesFinalCount ==
  /\ [](Started /\ pc \in Exits => pc \in {"x_summary", "x_count"})
  /\ [](pc \in {"count", "x_summary", "x_count"} => StatsComplete)
  /\ [](pc = "x_count" => ExitCode(pc) = 1)
  /\ [](pc \notin Exits => ENABLED Next)
  /\ [](RunRank >= 0)
  /\ [][RunRank' < RunRank]_vars

C2_Witness ==
  /\ pc = "x_summary"
  /\ Len(allFiles) = 3
  /\ Len(errorLog) = 2
  /\ \E n \in DOMAIN successLog : successLog[n].chunksProcessed = 0

\* task k's result has been tallied into the statistics
Recorded(k) == k <= processedCount

InLog(log, f) == \E n \in DOMAIN log : log[n].fileName = f

\* C3: a document with a sub-batch whose embedding or index write finally
\* failed is recorded as failed, with its filename and a reason, and not as
\* succeeded.
C3_FailedDocRecordedFailed ==
  \A k \in Tasks :
    (task[k].pc = "done" /\ task[k].anyFail) =>
      /\ ~task[k].result.success
      /\ task[k].result.fileName = allFiles[k]
      /\ task[k].result.error # "none"
      /\ Recorded(k) => (InLog(errorLog, allFiles[k])
                         /\ ~InLog(successLog, allFiles[k]))

TooShort(k) == task[k].result.error = "No significant text found in PDF"

\* C4: a document whose text is missing or shorter than 100 characters
\* after trimming is recorded as failed with its filename and a reason, no
\* embedding call and no index write is made for it, and with 3 documents
\* of which one is too short and the others are chunked, the statistics are
\* 2 succeeded and 1 failed.
C4_ShortTextFails ==
  /\ \A k \in Tasks :
       (task[k].textLen # -1 /\ task[k].textLen < 100) =>
         (task[k].pc = "done" /\ TooShort(k))
  /\ \A k \in Tasks :
       TooShort(k) =>
         /\ ~task[k].result.success
         /\ task[k].result.fileName = allFiles[k]
         /\ ~task[k].anyCall
         /\ IdsOf(allFiles[k]) = {}
         /\ Recorded(k) => (InLog(errorLog, allFiles[k])
                            /\ ~InLog(successLog, allFiles[k]))
  /\ (/\ pc \in {"count", "x_summary", "x_count"}
      /\ Len(allFiles) = 3
      /\ \E k \in Tasks :
           /\ TooShort(k)
           /\ \A j \in Tasks \ {k} : task[j].nChunks > 0)
     => (Len(successLog) = 2 /\ Len(errorLog) = 1 /\ processedCount = 3)

C4_Witness ==
  /\ pc = "x_summary"
  /\ Len(allFiles) = 3
  /\ TooShort(2)
  /\ Len(successLog) = 2
  /\ Len(errorLog) = 1
  /\ errorLog[1].fileName = allFiles[2]
  /\ index.ids # {}

\* C5 (as claimed): at most MAX_RETRIES attempts are made for one text.
C5_AtMostMaxRetriesAttempts ==
  \A k \in Tasks : task[k].calls <= MAX_RETRIES

\* the embedding of a chunk of task k's sub-batch finally failed
EmbedGaveUp(k) ==
  Reported(k) /\ task[k].batchAdded = 0 /\ task[k].adds = 0

\* C5 (amended): at most MAX_RETRIES + 1 attempts are made for one text (the
\* first attempt and MAX_RETRIES retries); the error propagates only when
\* all MAX_RETRIES + 1 attempts have failed, and a further attempt for a
\* text is made only after a failed one.
C5_AtMostMaxRetriesPlusOneAttempts ==
  /\ [](\A k \in Tasks :
          /\ task[k].calls <= MAX_RETRIES + 1
          /\ task[k].pc = "backoff" => task[k].calls <= MAX_RETRIES
          /\ EmbedGaveUp(k) => task[k].calls = MAX_RETRIES + 1)
  /\ [][\A k \in Tasks :
          (/\ task[k].calls > 0
           /\ task'[k].calls > task[k].calls) =>
             (/\ task[k].pc = "backoff"
              /\ task'[k].ci = task[k].ci
              /\ task'[k].start = task[k].start)]_vars

C5_Witness ==
  \E k \in Tasks :
    /\ EmbedGaveUp(k)
    /\ task[k].calls = MAX_RETRIES + 1
    /\ task[k].embedded > 0

C8_ThreeWriteRetries ==
  \A k \in Tasks :
    (/\ Reported(k)
     /\ task[k].embedded = task[k].size
     /\ task[k].batchAdded = 0) =>
       task[k].adds - 1 = MAX_RETRIES

\* the number of sub-batches of n chunks
SubBatches(n) == (n + CHUNK_BATCH_SIZE - 1) \div CHUNK_BATCH_SIZE

\* C9: when the embedding of a chunk finally fails, no write is issued for
\* the sub-batch, no further chunk of it is embedded, it reports 0, and the
\* following sub-batches of the document are still processed.
C9_EmbedFailureAbortsSubBatch ==
  \A k \in Tasks :
    /\ task[k].adds > 0 => task[k].embedded = task[k].size
    /\ (Reported(k) /\ task[k].embedded < task[k].size) =>
         /\ task[k].batchAdded = 0
         /\ task[k].adds = 0
         /\ task[k].ci = task[k].embedded
         /\ BatchIds(task[k]) \cap index.ids = {}
    /\ (task[k].pc = "done" /\ task[k].textLen # -1 /\ task[k].nChunks > 0) =>
         /\ task[k].batches = SubBatches(task[k].nChunks)
         /\ task[k].result.success
    /\ task[k].pc = "gap" => task[k].batches < SubBatches(task[k].nChunks)

C9_Witness ==
  \E k \in Tasks :
    /\ task[k].pc = "gap"
    /\ task[k].batchAdded = 0
    /\ task[k].size = CHUNK_BATCH_SIZE
    /\ task[k].embedded = 3
    /\ task[k].adds = 0

\* C10: the collection is deleted (if it exists) and then created before
\* any document is read and before any entry is added; a failing delete
\* does not abort the run, a failing create aborts it with no document
\* processed.
C10_ResetBeforeProcessing ==
  /\ initLog.create # "none" => initLog.delete # "none"
  /\ initLog.delete = "ok" => (index.exists => initLog.create = "ok")
  /\ (Started \/ allFiles # <<>>) =>
       (initLog.create = "ok" /\ collection = "handle")
  /\ initLog.create = "ok" => index.ids \cap StaleIds = {}
  /\ initLog.create # "ok" => index.ids \subseteq StaleIds
  /\ \A k \in Tasks : task[k].anyCall => initLog.create = "ok"
  /\ (initLog.delete = "fail" /\ initLog.create = "none") => pc = "create"
  /\ pc = "x_create" <=> initLog.create = "fail"
  /\ initLog.create = "fail" =>
       (task = <<>> /\ allFiles = <<>> /\ processedCount = 0)

C10_Witness ==
  /\ initLog = [delete |-> "fail", create |-> "ok"]
  /\ pc = "x_summary"
  /\ index.ids # {}

\* the tasks that have started and not finished
InFlight == {k \in Tasks : task[k].pc \notin {"idle", "done"}}

\* the number (from 0) of the batch of the file at position k
BatchNo(k) == (k - 1) \div BATCH_SIZE

\* C11: at most BATCH_SIZE documents are being processed at any moment, and
\* no document of a later batch has started while a document of an earlier
\* batch has not finished.
C11_BoundedBatches ==
  /\ Cardinality(InFlight) <= BATCH_SIZE
  /\ \A j, k \in Tasks :
       (BatchNo(j) < BatchNo(k) /\ task[k].pc # "idle") => task[j].pc = "done"
  /\ \A j, k \in InFlight : BatchNo(j) = BatchNo(k)

C11_Witness ==
  /\ Len(allFiles) = 3
  /\ task[1].pc = "backoff"
  /\ task[2].pc = "add"
  /\ task[3].pc = "idle"

\* ---------------------------------------------------------------------
\* The query server (backend/index.js).  Text is a sequence of tokens; a
\* token is a run of n characters of one kind:
\*   "w"      characters that are none of the below (id names the run)
\*   "sp"     white space
\*   "dot"    sentence terminators . ! ?
\*   "num"    decimal digits (id is the number)
\*   "colon"  ':'          "rb"  ']'
\*   "marker" '[Document'  "sep" '---'

\* nResults of collection.query
NResults == 5

\* distances are in tenths: `distances[i] < 1.5`
DistanceThreshold == 15

\* goodMatches.slice(0, 5)
MaxContextDocs == 5

\* doc.substring(0, 800)
MaxDocChars == 800

\* s.trim().length > 20
MinSentenceLen == 20

\* content.substring(0, 150)
KeySentenceMax == 150

\* question.trim().length < 3
MinQuestionLen == 3

\* setTimeout(resolve, 1000) between two models
ModelGapMs == 1000

W(id, n) == [k |-> "w", n |-> n, id |-> id]
Sp == [k |-> "sp", n |-> 1, id |-> "space"]
Nl == [k |-> "sp", n |-> 1, id |-> "newline"]
Dot(n) == [k |-> "dot", n |-> n, id |-> "."]
Num(v) == [k |-> "num", n |-> 1, id |-> v]
Colon == [k |-> "colon", n |-> 1, id |-> ":"]
Rb == [k |-> "rb", n |-> 1, id |-> "]"]
Marker == [k |-> "marker", n |-> 9, id |-> "[Document"]
Sep == [k |-> "sep", n |-> 3, id |-> "---"]

\* String.prototype.length
RECURSIVE StrLen(_)
StrLen(s) == IF s = <<>> THEN 0 ELSE Head(s).n + StrLen(Tail(s))

\* the first n characters of a token: a piece of a marker or of a separator
\* is no longer one
Cut(t, n) ==
  IF t.k \in {"marker", "sep"} THEN W(<<t.id, n>>, n) ELSE [t EXCEPT !.n = n]

\* String.prototype.substring(0, n)
RECURSIVE Substring(_, _)
Substring(s, n) ==
  IF s = <<>> \/ n = 0 THEN <<>>
  ELSE IF Head(s).n <= n THEN <<Head(s)>> \o Substring(Tail(s), n - Head(s).n)
  ELSE <<Cut(Head(s), n)>>

\* String.prototype.trim()
RECURSIVE TrimStart(_)
TrimStart(s) ==
  IF s # <<>> /\ Head(s).k = "sp" THEN TrimStart(Tail(s)) ELSE s

RECURSIVE TrimEnd(_)
TrimEnd(s) ==
  IF s # <<>> /\ s[Len(s)].k = "sp" THEN TrimEnd(SubSeq(s, 1, Len(s) - 1))
  ELSE s

Trim(s) == TrimEnd(TrimStart(s))

\* the positions of the tokens of kind k in s
Positions(s, k) == {p \in 1..Len(s) : s[p].k = k}

MinOf(S) == CHOOSE x \in S : \A y \in S : x <= y

\* String.prototype.split on the tokens of kind k
RECURSIVE Split(_, _)
Split(s, k) ==
  IF Positions(s, k) = {} THEN <<s>>
  ELSE LET p == MinOf(Positions(s, k))
       IN  <<SubSeq(s, 1, p - 1)>> \o Split(SubSeq(s, p + 1, Len(s)), k)

\* Array.prototype.join('\n') of token sequences
RECURSIVE Join(_)
Join(ss) ==
  IF ss = <<>> THEN <<>>
  ELSE IF Len(ss) = 1 THEN ss[1]
  ELSE ss[1] \o <<Nl>> \o Join(Tail(ss))

\* the most matches an index result holds in the model
MaxMatches == 4

\* chunk texts the collection may hold: one sentence; two sentences; more
\* than MaxDocChars characters; exactly MaxDocChars characters; a first
\* sentence of exactly MinSentenceLen characters; a text holding the header
\* marker; a text holding the separator
TextTable ==
  << <<W("a", 30), Dot(1)>>,
     <<W("b", 25), Dot(1), Sp, W("b2", 40), Dot(1)>>,
     <<W("c", MaxDocChars - 10), Sp, W("c2", 30), Dot(1)>>,
     <<W("d", MaxDocChars - 1), Dot(1)>>,
     <<W("e", MinSentenceLen), Dot(1), Sp, W("e2", MinSentenceLen + 1), Dot(1)>>,
     <<W("f", 30), Sp, Marker, Sp, W("f2", 30), Dot(1)>>,
     <<W("g", 30), Sp, Sep, Sp, W("g2", 30), Dot(1)>> >>

\* metadata.title of the document number t
Title(t) == <<W(<<"title", t>>, 6)>>

\* what the collection may hold at the ranks 1..NResults of a result: the
\* text and the document of each rank (chunks of different documents; chunks
\* of the same documents; equal texts in different documents; a long text
\* first; a text with the marker first; a text with the separator first)
Patterns ==
  { [texts |-> <<1, 2, 5, 4, 3>>, titles |-> <<1, 2, 3, 4, 5>>],
    [texts |-> <<2, 1, 4, 5, 3>>, titles |-> <<1, 1, 2, 2, 3>>],
    [texts |-> <<1, 1, 2, 2, 1>>, titles |-> <<1, 2, 3, 4, 5>>],
    [texts |-> <<3, 1, 4, 2, 5>>, titles |-> <<1, 2, 3, 4, 5>>],
    [texts |-> <<6, 1, 7, 2, 5>>, titles |-> <<1, 2, 3, 4, 5>>],
    [texts |-> <<7, 6, 1, 2, 5>>, titles |-> <<1, 2, 3, 4, 5>>] }

\* distances in tenths: below the threshold, on it and above it
Distances == {8, DistanceThreshold, 16}

\* the distances 0.2, 0.8, 1.6, 2.0
ExampleDistances == <<2, 8, 16, 20>>

\* results.distances[0]: up to nResults distances, in any order
DistanceLists ==
  UNION {[1..n -> Distances] : n \in 0..Min(MaxMatches, NResults)}
    \cup {ExampleDistances}

\* results.documents[0], results.metadatas[0], results.distances[0] of a
\* query that resolves: up to nResults matches
IndexResults ==
  { [documents |-> [r \in 1..Len(d) |-> TextTable[p.texts[r]]],
     metadatas |-> [r \in 1..Len(d) |-> [title |-> Title(p.titles[r])]],
     distances |-> d] : p \in Patterns, d \in DistanceLists }

\* variant of the filter that keeps a distance equal to the threshold
RECURSIVE GoodRanksFrom_Inclusive(_, _)
GoodRanksFrom_Inclusive(distances, r) ==
  IF r > Len(distances) THEN <<>>
  ELSE (IF distances[r] <= DistanceThreshold THEN <<r>> ELSE <<>>)
       \o GoodRanksFrom_Inclusive(distances, r + 1)

\* the ranks i with distances[i] < 1.5, in rank order
RECURSIVE GoodRanksFrom(_, _)
GoodRanksFrom(distances, r) ==
  IF r > Len(distances) THEN <<>>
  ELSE (IF distances[r] < DistanceThreshold THEN <<r>> ELSE <<>>)
       \o GoodRanksFrom(distances, r + 1)

GoodRanks_Inclusive(distances) == GoodRanksFrom_Inclusive(distances, 1)

GoodRanks(distances) == GoodRanksFrom(distances, 1)

\* documents.filter((_, i) => distances[i] < 1.5): the texts alone
GoodMatches(results) ==
  LET ranks == GoodRanks(results.distances)
  IN  [j \in 1..Len(ranks) |-> results.documents[ranks[j]]]

\* Array.prototype.indexOf: the first position holding an equal string
IndexOf(documents, doc) ==
  MinOf({r \in 1..Len(documents) : documents[r] = doc})

\* `[Document ${i + 1}: ${metadata.title}]\n${doc.substring(0, 800)}${...}\n---`
Section(n, title, doc) ==
  <<Marker, Sp, Num(n), Colon, Sp>> \o title \o <<Rb, Nl>>
    \o Substring(doc, MaxDocChars)
    \o (IF StrLen(doc) > MaxDocChars THEN <<Dot(3)>> ELSE <<>>)
    \o <<Nl, Sep>>

\* goodMatches.slice(0, 5).map(...).join('\n')
Context(results) ==
  LET good == Take(GoodMatches(results), MaxContextDocs)
  IN  Join([j \in 1..Len(good) |->
             Section(j,
                     results.metadatas[IndexOf(results.documents, good[j])].title,
                     good[j])])

\* a run of literal text of the program
Lit(text, n) == [k |-> "w", n |-> n, id |-> text]

\* the position of the first ']' after position p of doc, 0 if there is none
NextRb(doc, p) ==
  LET after == {r \in Positions(doc, "rb") : r > p}
  IN  IF after = {} THEN 0 ELSE MinOf(after)

\* the positions where /(\d+): ([^\]]+)\]/ matches: digits, ':', a space, at
\* least one character that is not ']', then ']'
TitleMatches(doc) ==
  {p \in 1..(Len(doc) - 2) :
     /\ doc[p].k = "num"
     /\ doc[p + 1].k = "colon"
     /\ doc[p + 2] = Sp
     /\ NextRb(doc, p + 2) > p + 3}

\* titleMatch ? titleMatch[2] : `Document ${index}`
TitleOf(doc, idx) ==
  IF TitleMatches(doc) = {} THEN <<Lit("Document", 8), Sp, Num(idx)>>
  ELSE LET p == MinOf(TitleMatches(doc))
       IN  SubSeq(doc, p + 3, NextRb(doc, p + 2) - 1)

\* s.trim().length > 20
Meaningful(s) == StrLen(Trim(s)) > MinSentenceLen

\* sentences[0] || content.substring(0, 150)
KeySentence(content) ==
  LET sentences == SelectSeq(Split(content, "dot"), Meaningful)
  IN  IF sentences # <<>> THEN sentences[1]
      ELSE Substring(content, KeySentenceMax)

\* doc.trim() is not the empty string
NotBlank(doc) == Trim(doc) # <<>>

\* context.split('[Document').filter(doc => doc.trim())
FallbackDocuments(context) == SelectSeq(Split(context, "marker"), NotBlank)

\* the entry pushed for documents[index] (index counts from 0)
InfoOf(doc, idx) ==
  [title   |-> Trim(TitleOf(doc, idx)),
   content |-> Trim(KeySentence(Trim(Split(doc, "sep")[1])))]

\* relevantInfo after documents.forEach: index 0 is skipped
RelevantInfo(context) ==
  LET documents == FallbackDocuments(context)
  IN  [j \in 1..(Len(documents) - 1) |-> InfoOf(documents[j + 1], j)]

\* relevantInfo.forEach: the lines of the entries
RECURSIVE InfoLines(_)
InfoLines(info) ==
  IF info = <<>> THEN <<>>
  ELSE <<Lit("(page) **", 5)>> \o Head(info).title \o <<Lit("**", 2), Nl>>
       \o Head(info).content \o <<Nl, Nl>> \o InfoLines(Tail(info))

\* the summary line for n entries
SummaryLine(n) ==
  <<Sep, Nl, Lit("(bulb) This information is extracted directly from ", 47),
    Num(n),
    Lit(" relevant legal document(s). For more detailed analysis, please ensure the AI service is available.", 99)>>

\* generateStructuredFallback: nothing in its try block throws, its catch is
\* dead
generateStructuredFallback(context, question) ==
  LET relevantInfo == RelevantInfo(context)
  IN  <<Lit("Based on the legal documents, here's what I found regarding (quote)", 61)>>
        \o question \o <<Lit("(quote):", 2), Nl, Nl>>
        \o InfoLines(relevantInfo)
        \o SummaryLine(Len(relevantInfo))

\* variant that answers without a key as it does when every model failed
PlainFallback_Structured(context, question) ==
  generateStructuredFallback(context, question)

\* the answer of generateAnswer without a usable key
PlainFallback(context, question) ==
  <<Lit("Based on the legal documents found:", 35), Nl, Nl>> \o context
    \o <<Nl, Nl, Lit("Relevant information for: (quote)", 27)>> \o question
    \o <<Lit("(quote)", 1)>>

\* the two fixed answers of a query without good matches
NoDocumentsAnswer ==
  <<Lit("I couldn't find any relevant documents for your question. Please try rephrasing your query or ask about different legal topics.", 127)>>

NotRelatedAnswer ==
  <<Lit("I found some documents, but they don't seem closely related to your question. Please try rephrasing your query or ask about different legal topics.", 147)>>

\* ------------------------------------------------ POST /api/query, state
\* the Authorization header of the request: none, a token jwt.verify
\* rejects, a token it accepts
Tokens == {"none", "rejected", "accepted"}

\* req.body.question: absent, a number, and strings: empty, white space
\* only, two characters between spaces, three characters, a sentence
Questions ==
  { [type |-> "undefined", text |-> <<>>],
    [type |-> "number", text |-> <<>>],
    [type |-> "string", text |-> <<>>],
    [type |-> "string", text |-> <<Sp, Sp, Nl, Sp>>],
    [type |-> "string", text |-> <<Sp, W("ab", MinQuestionLen - 1), Sp>>],
    [type |-> "string", text |-> <<W("abc", MinQuestionLen)>>],
    [type |-> "string", text |-> <<Sp, W("what is bail", 12), Nl>>] }

\* !question
Falsy(question) ==
  question.type = "undefined" \/ (question.type = "string" /\ question.text = <<>>)

\* variant that does not trim before measuring
QuestionInvalid_Untrimmed(question) ==
  \/ Falsy(question)
  \/ question.type # "string"
  \/ StrLen(question.text) < MinQuestionLen

\* the condition of line 723
QuestionInvalid(question) ==
  \/ Falsy(question)
  \/ question.type # "string"
  \/ StrLen(Trim(question.text)) < MinQuestionLen

modelEndpoints == <<"gemini-1.5-flash-latest", "gemini-1.5-flash", "gemini-pro">>

\* candidates[0].content.parts[0].text of a generateContent response: none
\* or empty, white space only, a sentence between white space
ReplyTexts == {<<>>, <<Nl>>, <<Sp, W("reply", 40), Dot(1), Nl>>}

\* how a generateContent call fails: HTTP 503, HTTP 429, any other error
GenErrors == {"503", "429", "other"}

NoResults == [documents |-> <<>>, metadatas |-> <<>>, distances |-> <<>>]

NoResponse ==
  [status |-> 0, success |-> FALSE, message |-> "", hasAnswer |-> FALSE,
   answer |-> <<>>, matches |-> 0]

\* res.status(status).json({ success: false, message })
ErrorResponse(status, message) ==
  [status |-> status, success |-> FALSE, message |-> message,
   hasAnswer |-> FALSE, answer |-> <<>>, matches |-> 0]

\* res.json({ success: true, answer, matches })
AnswerResponse(answer, matches) ==
  [status |-> 200, success |-> TRUE, message |-> "", hasAnswer |-> TRUE,
   answer |-> answer, matches |-> matches]

\* a request that has arrived and has not been looked at
NewQuery(token, question) ==
  [pc |-> "recv", token |-> token, question |-> question,
   embedCalls |-> 0, queryCalls |-> 0, tried |-> <<>>, failed |-> 0,
   resolved |-> FALSE, results |-> NoResults, hasContext |-> FALSE, context |-> <<>>,
   good |-> <<>>, waitMs |-> 0, branch |-> "none", response |-> NoResponse]

Respond(qq, response) == [qq EXCEPT !.pc = "responded", !.response = response]

\* variant of the catch block that answers with a notice
QueryCatch_Notice(qq) == Respond(qq, AnswerResponse(NoDocumentsAnswer, 0))

\* the catch block of the handler (lines 786-792)
QueryCatch(qq) ==
  Respond(qq, ErrorResponse(500, "Failed to process query. Please try again."))

\* lines 780-784, after generateAnswer returned
Answered(qq, answer) == Respond(qq, AnswerResponse(answer, Len(qq.good)))

\* variant of the outer catch whose rate-limit branch returns the context
GenerateCatch_RateLimited(qq, err) ==
  Answered([qq EXCEPT !.branch = err],
           IF err = "429" THEN qq.context
           ELSE generateStructuredFallback(qq.context, qq.question.text))

\* the outer catch of generateAnswer (lines 657-671): the three branches
\* return the same
GenerateCatch(qq, err) ==
  Answered([qq EXCEPT !.branch = err],
           generateStructuredFallback(qq.context, qq.question.text))

\* generateAnswer up to its first await (lines 579-615)
AnswerStart(qq, key) ==
  IF KeyInvalid(key)
  THEN Answered(qq, PlainFallback(qq.context, qq.question.text))
  ELSE [qq EXCEPT !.pc = "gen", !.tried = <<1>>]

\* variant that goes on to the answer when no match passes the filter
AfterQuery_Unfiltered(qq, results, key) ==
  LET q1 == [qq EXCEPT !.resolved = TRUE, !.results = results]
      good == GoodMatches(results)
  IN  IF Len(results.documents) = 0
      THEN Respond(q1, AnswerResponse(NoDocumentsAnswer, 0))
      ELSE AnswerStart([q1 EXCEPT !.good = good, !.hasContext = TRUE,
                                  !.context = Context(results)], key)

\* lines 742-778, after collection.query resolved
AfterQuery(qq, results, key) ==
  LET q1 == [qq EXCEPT !.resolved = TRUE, !.results = results]
      good == GoodMatches(results)
  IN  IF Len(results.documents) = 0
      THEN Respond(q1, AnswerResponse(NoDocumentsAnswer, 0))
      ELSE IF Len(good) = 0
      THEN Respond(q1, AnswerResponse(NotRelatedAnswer, 0))
      ELSE AnswerStart([q1 EXCEPT !.good = good, !.hasContext = TRUE,
                                  !.context = Context(results)], key)

\* variant of the model catch that gives up at the first failure
ModelFailed_GivesUp(qq, err) ==
  GenerateCatch([qq EXCEPT !.failed = @ + 1], err)

\* the catch of one model (lines 644-654)
ModelFailed(qq, err) ==
  IF Len(qq.tried) = Len(modelEndpoints)
  THEN GenerateCatch([qq EXCEPT !.failed = @ + 1], err)
  ELSE [qq EXCEPT !.pc = "genwait", !.failed = @ + 1, !.waitMs = ModelGapMs]

\* the variables of the ingestion script, which the server does not have
ServerUnchanged ==
  UNCHANGED <<apiKey, dirExists, dir, pc, index, collection, allFiles, i, task,
              processedCount, successLog, errorLog, totalChunksAdded,
              keyChecks, initLog>>

\* faulty variant of QReceive: a token jwt.verify rejects is let through
QReceive_UnverifiedToken ==
  /\ q.pc = "recv"
  /\ q' = IF q.token = "none"
            THEN Respond(q, ErrorResponse(401, "No token"))
          ELSE IF QuestionInvalid(q.question)
            THEN Respond(q, ErrorResponse(400, "Question must be at least 3 characters long"))
          ELSE IF KeyInvalid(apiKey)
            THEN QueryCatch(q)
          ELSE [q EXCEPT !.pc = "embed", !.embedCalls = @ + 1]
  /\ ServerUnchanged

\* ------------------------------------------------ POST /api/query, actions
\* the auth middleware, the validation of line 723 and generateEmbedding up to
\* its axios.post
QReceive ==
  /\ q.pc = "recv"
  /\ q' = IF q.token = "none"
            THEN Respond(q, ErrorResponse(401, "No token"))
          ELSE IF q.token = "rejected"
            THEN Respond(q, ErrorResponse(401, "Invalid token"))
          ELSE IF QuestionInvalid(q.question)
            THEN Respond(q, ErrorResponse(400, "Question must be at least 3 characters long"))
          ELSE IF KeyInvalid(apiKey)
            THEN QueryCatch(q)
          ELSE [q EXCEPT !.pc = "embed", !.embedCalls = @ + 1]
  /\ ServerUnchanged

\* the embedding arrived: collection.query is issued, on a collection that
\* initChroma may have left undefined
QEmbedOK ==
  /\ q.pc = "embed"
  /\ q' = IF collection = "unset" THEN QueryCatch(q)
          ELSE [q EXCEPT !.pc = "query", !.queryCalls = @ + 1]
  /\ ServerUnchanged

\* faulty variant of QEmbedFail: the request is issued again, as the
\* ingestion side does, before the handler gives up
QEmbedFail_Retries ==
  /\ q.pc = "embed"
  /\ q' = IF q.embedCalls < MAX_RETRIES THEN [q EXCEPT !.embedCalls = @ + 1]
          ELSE QueryCatch(q)
  /\ ServerUnchanged

\* the embedding call failed or its response holds no embedding
QEmbedFail ==
  /\ q.pc = "embed"
  /\ q' = QueryCatch(q)
  /\ ServerUnchanged

\* collection.query resolved
QQueryOK ==
  /\ q.pc = "query"
  /\ \E results \in IndexResults : q' = AfterQuery(q, results, apiKey)
  /\ ServerUnchanged

\* collection.query rejected
QQueryFail ==
  /\ q.pc = "query"
  /\ q' = QueryCatch(q)
  /\ ServerUnchanged

\* a model answered with a text (lines 636-639)
GenOK ==
  /\ q.pc = "gen"
  /\ \E text \in ReplyTexts \ {<<>>} : q' = Answered(q, Trim(text))
  /\ ServerUnchanged

\* a model failed with an HTTP error
GenFail ==
  /\ q.pc = "gen"
  /\ \E err \in GenErrors : q' = ModelFailed(q, err)
  /\ ServerUnchanged

\* a model answered without a text (lines 640-642)
GenNoText ==
  /\ q.pc = "gen"
  /\ <<>> \in ReplyTexts
  /\ q' = ModelFailed(q, "other")
  /\ ServerUnchanged

\* the pause of line 653 is over: the next model is called
GenWaitDone ==
  /\ q.pc = "genwait"
  /\ q' = [q EXCEPT !.pc = "gen", !.waitMs = 0,
                    !.tried = Append(@, Len(@) + 1)]
  /\ ServerUnchanged

\* the server is listening and a request has arrived; initChroma has set
\* `collection` or has failed to
QInit ==
  /\ apiKey \in ApiKeys
  /\ dirExists = FALSE
  /\ dir = {}
  /\ pc = "server"
  /\ index = [exists |-> TRUE, ids |-> {}]
  /\ collection \in {"unset", "handle"}
  /\ allFiles = <<>>
  /\ i = 0
  /\ task = <<>>
  /\ processedCount = 0
  /\ successLog = <<>>
  /\ errorLog = <<>>
  /\ totalChunksAdded = 0
  /\ keyChecks = {}
  /\ initLog = [delete |-> "none", create |-> "none"]
  /\ q \in {NewQuery(token, question) : token \in Tokens, question \in Questions}

QNext ==
  \/ QReceive
  \/ QEmbedOK
  \/ QEmbedFail
  \/ QQueryOK
  \/ QQueryFail
  \/ GenOK
  \/ GenFail
  \/ GenNoText
  \/ GenWaitDone

QSpec == QInit /\ [][QNext]_vars

\* ------------------------------------------------ claims on the query path
\* the request got past the auth middleware and has been handled
Handled == q.pc = "responded" /\ q.token = "accepted"

\* no embedding call, no index query and no generation call was issued
NoRemoteCall == q.embedCalls = 0 /\ q.queryCalls = 0 /\ q.tried = <<>>

\* the question is missing, is not a string, or is shorter than 3 characters
\* once trimmed
BadQuestion(question) ==
  \/ question.type = "undefined"
  \/ question.type # "string"
  \/ StrLen(Trim(question.text)) < 3

\* C12: a request whose question is missing, not a string or shorter than 3
\* characters after trimming is answered with the validation error (400,
\* success false), and no embedding, index or generation call was issued.
C12_InvalidQuestionRejected ==
  (q.pc \notin {"none", "recv"} /\ q.token = "accepted" /\ BadQuestion(q.question)) =>
    /\ q.pc = "responded"
    /\ q.response.status = 400
    /\ ~q.response.success
    /\ q.response.message = "Question must be at least 3 characters long"
    /\ NoRemoteCall

C12_Witness ==
  /\ Handled
  /\ q.question = [type |-> "string", text |-> <<Sp, W("ab", 2), Sp>>]
  /\ q.response.status = 400
  /\ apiKey = "valid"
  /\ collection = "handle"

\* collection.query has resolved and the handler has gone on from it
QueryDone == q.resolved

\* the ranks of the returned matches whose distance is below 1.5
CloseRanks == {r \in 1..Len(q.results.distances) : q.results.distances[r] < 15}

\* the j-th smallest element of S
Nth(S, j) == CHOOSE r \in S : Cardinality({x \in S : x < r}) = j - 1

\* C13: the matches kept are exactly those whose distance is strictly below
\* 1.5, in rank order; of the distances 0.2, 0.8, 1.6, 2.0 the first two are
\* kept; the match count of the response is the number kept.
C13_FilterBelowThreshold ==
  QueryDone =>
    /\ Len(q.good) = Cardinality(CloseRanks)
    /\ \A j \in 1..Len(q.good) : q.good[j] = q.results.documents[Nth(CloseRanks, j)]
    /\ q.results.distances = <<2, 8, 16, 20>> =>
         q.good = SubSeq(q.results.documents, 1, 2)
    /\ q.pc = "responded" => q.response.matches = Cardinality(CloseRanks)

C13_Witness ==
  /\ Handled
  /\ q.results.distances = <<8, 15, 16, 8>>
  /\ q.response.matches = 2
  /\ q.good = <<q.results.documents[1], q.results.documents[4]>>
  /\ q.good[1] # q.good[2]

C13_ExampleWitness ==
  /\ Handled
  /\ q.results.distances = <<2, 8, 16, 20>>
  /\ q.response.matches = 2

\* the response of the handler's catch block
SystemError ==
  [status |-> 500, success |-> FALSE,
   message |-> "Failed to process query. Please try again.",
   hasAnswer |-> FALSE, answer |-> <<>>, matches |-> 0]

\* C14: when the index returns no match, or no returned match is below the
\* threshold, the request ends with a successful notice that reports 0
\* matches and is not the error response; no model was called and no context
\* was built.
C14_NoMatchNotice ==
  (QueryDone /\ CloseRanks = {}) =>
    /\ q.pc = "responded"
    /\ q.response.status = 200
    /\ q.response.success
    /\ q.response.hasAnswer
    /\ q.response.answer \in {NoDocumentsAnswer, NotRelatedAnswer}
    /\ q.response.matches = 0
    /\ q.response # SystemError
    /\ q.tried = <<>>
    /\ ~q.hasContext
    /\ q.context = <<>>

C14_Witness ==
  /\ Handled
  /\ q.resolved
  /\ q.results.distances = <<15, 16>>
  /\ q.response.answer = NotRelatedAnswer

C14_EmptyWitness ==
  /\ Handled
  /\ q.resolved
  /\ q.results.documents = <<>>
  /\ q.response.answer = NoDocumentsAnswer

\* the request carries an accepted token and a question that passes validation
ValidQuery == q.token = "accepted" /\ ~BadQuestion(q.question)

\* a bound on the steps the request still takes
QRank ==
  CASE q.pc = "recv" -> 20
    [] q.pc = "embed" -> 19
    [] q.pc = "query" -> 18
    [] q.pc = "gen" -> 2 * (Len(modelEndpoints) - Len(q.tried)) + 2
    [] q.pc = "genwait" -> 2 * (Len(modelEndpoints) - Len(q.tried)) + 1
    [] OTHER -> 0

\* C15 as stated: every validated request ends with a successful answer,
\* whatever the embedding call, the index query and the models do.
C15_NeverAnError ==
  (q.pc = "responded" /\ ValidQuery) => (q.response.success /\ q.response.hasAnswer)

\* C15, amended: a validated request always gets a response; the response is
\* a successful answer when the embedding call and the index query succeeded,
\* whatever the models do, and it is the error response (500, success false)
\* when the embedding call or the index query failed.
C15_AnswerUnlessRetrievalFails ==
  /\ [](ValidQuery =>
          /\ q.pc # "responded" => ENABLED QNext
          /\ (q.pc = "responded" /\ q.resolved) =>
               (q.response.status = 200 /\ q.response.success /\ q.response.hasAnswer)
          /\ (q.pc = "responded" /\ ~q.resolved) => q.response = SystemError)
  /\ [][QRank' < QRank]_vars

C15_Witness ==
  /\ Handled
  /\ ~BadQuestion(q.question)
  /\ apiKey = "valid"
  /\ q.embedCalls = 1
  /\ q.queryCalls = 0
  /\ collection = "handle"
  /\ q.response = SystemError

C15_AnswerWitness ==
  /\ Handled
  /\ q.resolved
  /\ q.failed = 3
  /\ q.response.hasAnswer

\* the structured fallback has been entered
InFallback == q.branch # "none"

\* the models tried so far are the first ones of the list, in list order
TriedInOrder ==
  /\ Len(q.tried) <= Len(modelEndpoints)
  /\ \A j \in 1..Len(q.tried) : q.tried[j] = j

\* C16: the models are tried in list order, each at most once; a model is
\* tried only when all the models before it have failed; after a success no
\* model is tried; the structured fallback is entered only when every model
\* of the list has failed.
C16_BackendStateMachine ==
  /\ [](/\ TriedInOrder
        /\ q.pc = "gen" => q.failed = Len(q.tried) - 1
        /\ q.pc = "genwait" => (q.failed = Len(q.tried) /\ q.failed < Len(modelEndpoints))
        /\ (q.pc = "responded" /\ q.tried # <<>> /\ ~InFallback) =>
             q.failed = Len(q.tried) - 1
        /\ InFallback =>
             (q.pc = "responded" /\ q.failed = Len(modelEndpoints)
                /\ Len(q.tried) = Len(modelEndpoints)))
  /\ [][/\ q'.tried # q.tried =>
             (/\ q'.tried = Append(q.tried, Len(q.tried) + 1)
              /\ q.failed = Len(q.tried)
              /\ q.pc # "responded")
        /\ q.pc = "responded" => q' = q
        /\ q'.failed # q.failed => (q.pc = "gen" /\ q'.failed = q.failed + 1)]_vars

C16_Witness ==
  /\ Handled
  /\ InFallback
  /\ q.tried = <<1, 2, 3>>
  /\ q.failed = 3
  /\ q.response.answer = generateStructuredFallback(q.context, q.question.text)

C16_SecondModelWitness ==
  /\ Handled
  /\ ~InFallback
  /\ q.tried = <<1, 2>>
  /\ q.failed = 1
  /\ q.response.hasAnswer

\* the remote calls of a request that went through every model: one
\* embedding call, one index query, one call per model
CallsOfFullRun ==
  q.embedCalls = 1 /\ q.queryCalls = 1 /\ Len(q.tried) = Len(modelEndpoints)

\* C17: when every model has failed, the request has ended with a non-empty
\* answer; the answer is the structured fallback of the context and the
\* question alone, whichever way the last model failed, and producing it
\* added no remote call to those of the models.
C17_FallbackAnswer ==
  InFallback =>
    /\ q.pc = "responded"
    /\ q.response.status = 200
    /\ q.response.hasAnswer
    /\ StrLen(q.response.answer) > 0
    /\ q.response.answer = generateStructuredFallback(q.context, q.question.text)
    /\ CallsOfFullRun

C17_Witness ==
  /\ Handled
  /\ q.branch = "429"
  /\ q.failed = Len(modelEndpoints)
  /\ Len(q.good) = 2
  /\ StrLen(q.response.answer) > 0

\* ------------------------------------------------ generateAnswer alone
\* generateAnswer is called with a context and a question (line 778),
\* whatever the key is
Compose ==
  /\ q.pc = "compose"
  /\ q' = AnswerStart(q, apiKey)
  /\ ServerUnchanged

\* the call of line 778 for the results of a query with good matches
ComposeCall(question, results) ==
  [NewQuery("accepted", question) EXCEPT
     !.pc = "compose", !.embedCalls = 1, !.queryCalls = 1, !.resolved = TRUE,
     !.results = results, !.good = GoodMatches(results), !.hasContext = TRUE,
     !.context = Context(results)]

CInit ==
  /\ apiKey \in ApiKeys
  /\ dirExists = FALSE
  /\ dir = {}
  /\ pc = "server"
  /\ index = [exists |-> TRUE, ids |-> {}]
  /\ collection = "handle"
  /\ allFiles = <<>>
  /\ i = 0
  /\ task = <<>>
  /\ processedCount = 0
  /\ successLog = <<>>
  /\ errorLog = <<>>
  /\ totalChunksAdded = 0
  /\ keyChecks = {}
  /\ initLog = [delete |-> "none", create |-> "none"]
  /\ q \in {ComposeCall(question, results) :
              question \in {x \in Questions : ~QuestionInvalid(x)},
              results \in {x \in IndexResults : GoodMatches(x) # <<>>}}

CNext ==
  \/ Compose
  \/ GenOK
  \/ GenFail
  \/ GenNoText
  \/ GenWaitDone

ComposeSpec == CInit /\ [][CNext]_vars

\* generateAnswer was called without a usable key
NoKeyCall == KeyInvalid(apiKey) /\ q.pc # "compose"

CleanTexts ==
  \A j \in 1..Len(q.good) :
    Positions(q.good[j], "marker") = {} /\ Positions(q.good[j], "sep") = {}

\* the positions in an answer where an entry of the structured fallback starts
EntryStarts(answer) == {p \in 1..Len(answer) : answer[p] = Lit("(page) **", 5)}

\* the title in the metadata of the j-th match below the threshold
TitleOfGood(j) == q.results.metadatas[Nth(CloseRanks, j)].title

\* C19: for a context built from n matches (1 <= n <= 5) whose texts hold
\* neither the marker nor the separator, the structured fallback answer has
\* exactly n entries, the j-th under the title of the j-th match, and its
\* summary line states n documents.
C19_OneEntryPerMatch ==
  (InFallback /\ CleanTexts) =>
    LET answer == q.response.answer
        starts == EntryStarts(answer)
        n == Len(q.good)
    IN  /\ n \in 1..5
        /\ Cardinality(starts) = n
        /\ \A j \in 1..n :
             SubSeq(answer, Nth(starts, j) + 1, Nth(starts, j) + Len(TitleOfGood(j)))
               = TitleOfGood(j)
        /\ answer[Len(answer) - 1] = Num(n)

\* what the code does instead: one entry less than matches, the j-th entry
\* under the title of match j + 1, and the summary counts the entries
C19_FirstMatchDropped ==
  (InFallback /\ CleanTexts) =>
    LET answer == q.response.answer
        starts == EntryStarts(answer)
        n == Len(q.good)
    IN  /\ Cardinality(starts) = n - 1
        /\ answer[Len(answer) - 1] = Num(n - 1)

\* the text of the j-th match below the threshold
TextOfGood(j) == q.results.documents[Nth(CloseRanks, j)]

\* the section the context should hold for the j-th match below the
\* threshold: the header with the title of that match, the first 800
\* characters of its text (with the ellipsis of a cut text), the separator
SectionOfGood(j) ==
  <<Marker, Sp, Num(j), Colon, Sp>> \o TitleOfGood(j) \o <<Rb, Nl>>
    \o Substring(TextOfGood(j), 800)
    \o (IF StrLen(TextOfGood(j)) > 800 THEN <<Dot(3)>> ELSE <<>>)
    \o <<Nl, Sep>>

\* the returned texts differ from one another
DistinctTexts ==
  \A j, k \in 1..Len(q.results.documents) :
    j # k => q.results.documents[j] # q.results.documents[k]

\* C20: the context holds one section per match below the threshold, at most
\* 5, in rank order; the header of each section names the title in the
\* metadata of that same match, also when two returned matches have the same
\* text and different metadata; the body is at most the first 800 characters
\* of the text of the match.
C20_SectionPerMatch ==
  q.hasContext =>
    q.context = Join([j \in 1..Min(Cardinality(CloseRanks), 5) |-> SectionOfGood(j)])

\* what holds of the code: the same, when no two returned texts are equal
C20_SectionPerDistinctMatch ==
  (q.hasContext /\ DistinctTexts) =>
    q.context = Join([j \in 1..Min(Cardinality(CloseRanks), 5) |-> SectionOfGood(j)])

\* ------------------------------------------------ processChunkBatch: payload
\* the first position where pat occurs in s, 0 if it does not
FirstMatch(s, pat) ==
  LET at == {p \in 1..(Len(s) - Len(pat) + 1) :
               SubSeq(s, p, p + Len(pat) - 1) = pat}
  IN  IF at = {} THEN 0 ELSE MinOf(at)

\* String.prototype.replace(pat, ''): the first occurrence only
RemoveFirst(s, pat) ==
  LET p == FirstMatch(s, pat)
  IN  IF p = 0 THEN s
      ELSE SubSeq(s, 1, p - 1) \o SubSeq(s, p + Len(pat), Len(s))

\* String.prototype.replace(/_/g, ' ')
UnderscoresToSpaces(s) == [k \in 1..Len(s) |-> IF s[k] = "_" THEN " " ELSE s[k]]

\* the file name with its four-character extension removed in any letter
\* case and underscores as spaces: the title the specification describes
TitleOfFile_AnyCase(name) ==
  UnderscoresToSpaces(
    IF IsPdfName(name) THEN SubSeq(name, 1, Len(name) - 4) ELSE name)

\* fileName.replace('.PDF', '').replace(/_/g, ' ')
TitleOfFile(name) ==
  UnderscoresToSpaces(RemoveFirst(name, <<".", "P", "D", "F">>))

\* variant of the metadata that numbers the chunks within the sub-batch
ChunkMetadata_Local(t, idx) ==
  [filename |-> t.fileName, source |-> t.fileName,
   title |-> TitleOfFile(FileTable[t.fileName]),
   chunk_index |-> idx, total_chunks |-> t.size]

\* the metadata of the chunk at position idx (from 0) of the sub-batch
\* (lines 192-201); processed_at, the time of the call, is left out
ChunkMetadata(t, idx) ==
  [filename |-> t.fileName, source |-> t.fileName,
   title |-> TitleOfFile(FileTable[t.fileName]),
   chunk_index |-> t.start + idx, total_chunks |-> t.size]

\* the text of an id: the file name, '_chunk_', the number
IdText(id) == FileTable[id[1]] \o <<"_", "c", "h", "u", "n", "k", "_", id[2]>>

\* the argument of collection.add (lines 229-234): documents are the chunks
\* of the sub-batch, embeddings the vectors pushed in the order of the loop
AddPayload(t) ==
  [ids        |-> [j \in 1..t.size |-> ChunkId(t, j - 1)],
   embeddings |-> [j \in 1..t.embedded |-> <<"embedding of chunk", t.start + j - 1>>],
   documents  |-> [j \in 1..t.size |-> <<"chunk", t.start + j - 1>>],
   metadatas  |-> [j \in 1..t.size |-> ChunkMetadata(t, j - 1)]]

\* ------------------------------------------------ claims on the payload
\* the tasks with an index write in flight
Writing == {k \in Tasks : task[k].pc = "add"}

\* the ids of the chunks 0..n-1 of file f
AllIds(f, n) == {<<f, c>> : c \in 0..(n - 1)}

C22_TotalChunksOfDocument ==
  \A k \in Writing :
    LET t == task[k]
        metadatas == AddPayload(t).metadatas
    IN  \A j \in 1..t.size :
          /\ metadatas[j].total_chunks = t.nChunks
          /\ metadatas[j].chunk_index < metadatas[j].total_chunks

\* what holds of the code: the total is the length of the sub-batch
C22_TotalChunksOfSubBatch ==
  \A k \in Writing :
    LET t == task[k]
        metadatas == AddPayload(t).metadatas
    IN  \A j \in 1..t.size :
          /\ metadatas[j].total_chunks = Min(CHUNK_BATCH_SIZE, t.nChunks - t.start)
          /\ metadatas[j].chunk_index = t.start + j - 1

\* C23: with an absent or placeholder credential the run ends with a failure
\* status and leaves everything untouched: the collection is neither deleted
\* nor created, the directory is not listed, no document is read and no
\* embedding call is made.
C23_AbortsBeforeAnyWork ==
  /\ [](KeyInvalid(apiKey) =>
          /\ pc # "main" => (pc = "x_config" /\ ExitCode(pc) = 1)
          /\ initLog.delete = "none" /\ initLog.create = "none"
          /\ collection = "unset"
          /\ allFiles = <<>>
          /\ task = <<>>
          /\ processedCount = 0)
  /\ [][KeyInvalid(apiKey) => index' = index]_vars

C23_Witness ==
  /\ apiKey = "placeholder"
  /\ pc = "x_config"
  /\ index.ids = StaleIds
  /\ dirExists
  /\ Cardinality(dir) = 3

\* the tasks with an embedding call in flight
Embedding == {k \in Tasks : task[k].pc = "embed"}

\* C24: a document has at most one embedding call in flight: the call for a
\* chunk is issued only when every chunk before it in the sub-batch has its
\* embedding, and a retry only when the call before it has failed.  So at
\* most BATCH_SIZE embedding calls are in flight in the whole run.
C24_SequentialEmbedding ==
  /\ [](Cardinality(Embedding) <= BATCH_SIZE)
  /\ [](\A k \in Tasks :
          task[k].pc \in {"embed", "backoff"} =>
            /\ task[k].embedded = task[k].ci
            /\ task[k].ci < task[k].size
            /\ task[k].calls <= task[k].retries + 1)
  /\ [][\A k \in Tasks :
          (k \in DOMAIN task /\ k \in DOMAIN task' /\ task[k].pc = "embed") =>
            \/ task'[k] = task[k]
            \/ task'[k].pc # "embed"]_vars

C24_Witness ==
  /\ Cardinality(Embedding) = BATCH_SIZE
  /\ \E k \in Embedding : task[k].ci = 1 /\ task[k].retries = 2

\* task k is inside a sub-batch before and after the step
InSubBatch(t) == t.pc \in {"embed", "backoff", "pace", "add", "wbackoff", "gap"}

\* C25: the sub-batches of a document run in order, the next one starting
\* only when the one before has reported its count; the chunks of a
\* sub-batch are embedded in increasing index order; the ids, embeddings,
\* texts and metadatas of one write are parallel, in increasing chunk index.
C25_InOrder ==
  /\ [](\A k \in Writing :
          LET t == task[k]
              p == AddPayload(t)
          IN  /\ Len(p.ids) = t.size /\ Len(p.embeddings) = t.size
              /\ Len(p.documents) = t.size /\ Len(p.metadatas) = t.size
              /\ \A j \in 1..t.size :
                   /\ p.ids[j][2] = t.start + j - 1
                   /\ p.embeddings[j][2] = p.ids[j][2]
                   /\ p.documents[j][2] = p.ids[j][2]
                   /\ p.metadatas[j].chunk_index = p.ids[j][2])
  /\ [][\A k \in Tasks :
          (k \in DOMAIN task' /\ InSubBatch(task[k]) /\ InSubBatch(task'[k])) =>
            /\ task'[k].start # task[k].start =>
                 /\ task[k].pc = "gap"
                 /\ Reported(k)
                 /\ task'[k].start = task[k].start + CHUNK_BATCH_SIZE
                 /\ task'[k].ci = 0
            /\ (task'[k].start = task[k].start /\ task'[k].ci # task[k].ci) =>
                 /\ task[k].pc = "pace"
                 /\ task[k].embedded = task[k].ci + 1
                 /\ task'[k].ci = task[k].ci + 1]_vars

C25_Witness ==
  \E k \in Writing :
    /\ task[k].start = CHUNK_BATCH_SIZE
    /\ task[k].totalAdded = CHUNK_BATCH_SIZE
    /\ AddPayload(task[k]).metadatas[1].chunk_index = CHUNK_BATCH_SIZE

\* the run statistics
Statistics == <<processedCount, successLog, errorLog, totalChunksAdded>>

\* the positions in allFiles of the documents tallied so far whose result
\* has the given success flag, in increasing order
RECURSIVE TalliedFrom(_, _)
TalliedFrom(k, flag) ==
  IF k > processedCount THEN <<>>
  ELSE (IF task[k].result.success = flag THEN <<k>> ELSE <<>>)
       \o TalliedFrom(k + 1, flag)

RECURSIVE SumChunks(_)
SumChunks(log) ==
  IF log = <<>> THEN 0 ELSE Head(log).chunksProcessed + SumChunks(Tail(log))

\* C26: the statistics change only when every document of the batch has
\* completed; the counters and the order of the two lists are those of the
\* sorted file names, whatever the order in which the documents completed.
C26_StatisticsAfterBatch ==
  /\ [][Statistics' # Statistics =>
          /\ pc = "batch"
          /\ InFlight = {}
          /\ \A k \in BatchOf(allFiles, i) : task[k].pc = "done"
          /\ processedCount' = processedCount + Cardinality(BatchOf(allFiles, i))]_vars
  /\ [](Started =>
          LET ok == TalliedFrom(1, TRUE)
              ko == TalliedFrom(1, FALSE)
          IN  /\ successLog = [n \in 1..Len(ok) |-> task[ok[n]].result]
              /\ errorLog = [n \in 1..Len(ko) |-> task[ko[n]].result]
              /\ \A k \in 1..processedCount : task[k].result.fileName = allFiles[k]
              /\ totalChunksAdded = SumChunks(successLog))

C26_Witness ==
  /\ Len(allFiles) = 2
  /\ task[2].pc = "done"
  /\ task[2].result.success
  /\ task[1].pc = "embed"
  /\ processedCount = 0
  /\ successLog = <<>>

C26_TalliedWitness ==
  /\ processedCount = 2
  /\ Len(successLog) = 2
  /\ successLog[1].fileName = allFiles[1]
  /\ successLog[2].fileName = allFiles[2]

\* ------------------------------------------------ the listing alone
\* processPDFs at the listing of the directory (lines 258-297), for every
\* directory the file table can make: main has checked the key and the
\* collection has been deleted
LInit ==
  /\ apiKey = "valid"
  /\ dirExists \in BOOLEAN
  /\ dir \in SUBSET (1..Len(FileTable))
  /\ pc = "create"
  /\ index = [exists |-> FALSE, ids |-> {}]
  /\ collection = "unset"
  /\ allFiles = <<>>
  /\ i = 0
  /\ task = <<>>
  /\ processedCount = 0
  /\ successLog = <<>>
  /\ errorLog = <<>>
  /\ totalChunksAdded = 0
  /\ keyChecks = {"main"}
  /\ initLog = [delete |-> "ok", create |-> "none"]
  /\ q = NoQuery

LNext ==
  \/ CreateOK
  \/ CreateFail

ListSpec == LInit /\ [][LNext]_vars

\* the entries of the directory whose name ends with .pdf in any letter case
PdfEntries ==
  {x \in dir : Len(FileTable[x]) >= 4
               /\ LowerName(SubSeq(FileTable[x], Len(FileTable[x]) - 3,
                                   Len(FileTable[x]))) = <<".", "p", "d", "f">>}

\* C27: the documents of a run are the first MAX_PDFS, in lexicographic
\* order, of the directory's names that end with the PDF extension in any
\* letter case; a task exists for these only, and the first batch holds the
\* first of them.
C27_SortedCappedSelection ==
  pc = "batch" =>
    LET chosen == {allFiles[k] : k \in DOMAIN allFiles}
    IN  /\ chosen \subseteq PdfEntries
        /\ Len(allFiles) = Min(Cardinality(PdfEntries), 5)
        /\ \A j, k \in DOMAIN allFiles :
             j < k => StrLess(FileTable[allFiles[j]], FileTable[allFiles[k]])
        /\ \A x \in PdfEntries \ chosen, y \in chosen :
             StrLess(FileTable[y], FileTable[x])
        /\ DOMAIN task = DOMAIN allFiles
        /\ \A k \in DOMAIN task :
             /\ task[k].pc # "idle" => (k <= BATCH_SIZE /\ task[k].fileName = allFiles[k])
             /\ k <= BATCH_SIZE => task[k].pc # "idle"

C27_Witness ==
  /\ pc = "batch"
  /\ Cardinality(PdfEntries) = 7
  /\ Cardinality(dir) = 9
  /\ Len(allFiles) = 5
  /\ FileTable[allFiles[1]] = <<"B", ".", "p", "d", "f">>
  /\ task[1].pc = "parse"

\* C28: a batch that is not the last is followed by the pause and the next
\* batch starts from that pause only; the last batch is followed by the
\* final count at once.  In a sub-batch, an embedding that is not the last
\* is followed by the pacing sleep of PaceMs and the next chunk is embedded
\* from that sleep only; the last embedding is followed by the write at once.
C28_Pauses ==
  /\ [][/\ (pc = "batch" /\ pc' # "batch") =>
             IF i + BATCH_SIZE < Len(allFiles) THEN pc' = "pause" ELSE pc' = "count"
        /\ i' # i => (pc = "pause" /\ pc' = "batch" /\ i' = i + BATCH_SIZE)]_vars
  /\ [][\A k \in Tasks :
          (k \in DOMAIN task' /\ InSubBatch(task[k]) /\ InSubBatch(task'[k])) =>
            /\ task'[k].embedded = task[k].embedded + 1 =>
                 /\ task[k].pc = "embed"
                 /\ IF task[k].ci < task[k].size - 1
                    THEN task'[k].pc = "pace" /\ task'[k].sleepMs = 1000
                    ELSE task'[k].pc = "add" /\ task'[k].sleepMs = 0
            /\ (task'[k].start = task[k].start /\ task'[k].ci = task[k].ci + 1) =>
                 (task[k].pc = "pace" /\ task[k].sleepMs = 1000)]_vars
  /\ [](\A k \in Tasks : task[k].pc = "pace" => task[k].ci < task[k].size - 1)
  /\ [](pc = "pause" => i + BATCH_SIZE < Len(allFiles))

C28_Witness ==
  /\ pc = "batch"
  /\ i = BATCH_SIZE
  /\ Len(allFiles) = 3
  /\ task[3].pc = "pace"
  /\ task[3].sleepMs = 1000
  /\ task[3].size = 2

\* C29: for every accepted file name, whatever the letter case of its PDF
\* extension, the title in the metadata of each entry written is the file
\* name without its extension and with every underscore as a space.
\* The code removes the literal ".PDF" only (line 196), so the title of
\* a.pdf is "a.pdf".
C29_TitleWithoutExtension ==
  \A k \in Writing :
    LET t == task[k]
        p == AddPayload(t)
    IN  \A j \in 1..Len(p.metadatas) :
          p.metadatas[j].title = TitleOfFile_AnyCase(FileTable[t.fileName])

\* what the code guarantees: the stated title for upper-case extensions, the
\* name with its extension kept otherwise
C29_TitleOfUpperCaseOnly ==
  \A k \in Writing :
    LET t == task[k]
        p == AddPayload(t)
        name == FileTable[t.fileName]
    IN  \A j \in 1..Len(p.metadatas) :
          p.metadatas[j].title =
            IF SubSeq(name, Len(name) - 3, Len(name)) = <<".", "P", "D", "F">>
            THEN TitleOfFile_AnyCase(name)
            ELSE UnderscoresToSpaces(name)

C29_UpperCaseWitness ==
  \E k \in Writing :
    /\ FileTable[task[k].fileName] = <<"b", "_", "x", ".", "P", "D", "F">>
    /\ AddPayload(task[k]).metadatas[1].title = <<"b", " ", "x">>

\* ------------------------------------------- the excerpts of the fallback
\* the body of the section of the j-th match below the threshold: its text
\* as the context holds it
BodyOfGood(j) ==
  Substring(TextOfGood(j), 800)
    \o (IF StrLen(TextOfGood(j)) > 800 THEN <<Dot(3)>> ELSE <<>>)

\* the excerpt of the j-th entry of a structured fallback answer: what lies
\* between the title line of the entry and the blank line that ends it
ExcerptOf(answer, j) ==
  LET starts == EntryStarts(answer)
      from == Nth(starts, j) + Len(TitleOfGood(j + 1)) + 3
      next == IF j < Cardinality(starts) THEN Nth(starts, j + 1)
              ELSE Len(answer) - 4
  IN  SubSeq(answer, from, next - 3)

\* a sentence of at least 20 characters once trimmed
AtLeastTwenty(s) == StrLen(Trim(s)) >= 20

\* the excerpt stated for a section body: its first sentence of at least 20
\* characters, the leading 150 characters when there is none
StatedExcerpt(body) ==
  LET sentences == SelectSeq(Split(body, "dot"), AtLeastTwenty)
  IN  IF sentences # <<>> THEN Trim(sentences[1])
      ELSE Trim(Substring(body, 150))

\* C30: in the structured fallback, the excerpt of the entry of a document
\* section is the first sentence of that document's text whose trimmed
\* length is at least 20 characters, the leading characters of the section
\* when no sentence qualifies; every entry has an excerpt.
\* (The j-th entry belongs to match j + 1: the first section has no entry.
\* Stated for returned texts that differ, where each section carries the
\* title of its own match.)
C30_ExcerptIsFirstSentence ==
  (InFallback /\ CleanTexts /\ DistinctTexts) =>
    LET answer == q.response.answer
    IN  \A j \in 1..Cardinality(EntryStarts(answer)) :
          /\ ExcerptOf(answer, j) # <<>>
          /\ ExcerptOf(answer, j) = StatedExcerpt(BodyOfGood(j + 1))

\* what the code does: the sentences are cut from the section without its
\* marker, so the rest of the header line, "n: title]" and the line break,
\* opens the first of them, and a sentence needs more than 20 characters
C30_ExcerptOpensWithHeader ==
  (InFallback /\ CleanTexts /\ DistinctTexts) =>
    LET answer == q.response.answer
    IN  \A j \in 1..Cardinality(EntryStarts(answer)) :
          LET content == <<Num(j + 1), Colon, Sp>> \o TitleOfGood(j + 1)
                           \o <<Rb, Nl>> \o BodyOfGood(j + 1)
              sentences == SelectSeq(Split(content, "dot"), Meaningful)
          IN  /\ ExcerptOf(answer, j) # <<>>
              /\ ExcerptOf(answer, j) =
                   Trim(IF sentences # <<>> THEN sentences[1]
                        ELSE Substring(content, 150))

C30_HeaderWitness ==
  /\ InFallback /\ CleanTexts /\ DistinctTexts
  /\ Cardinality(EntryStarts(q.response.answer)) >= 1
  /\ TextOfGood(2) = TextTable[5]
  /\ ExcerptOf(q.response.answer, 1)
       = <<Num(2), Colon, Sp>> \o TitleOfGood(2) \o <<Rb, Nl, W("e", 20)>>

\* ------------------------------------------- claims on the query path, II
\* C31: a query issues the embedding request at most once and never again
\* after a failure: exactly once for a validated request on a server with a
\* configured key, not at all when the key is missing (generateEmbedding
\* throws before the request).  While the request is pending no other call is
\* out; a query that ends without an index query, the embedding having
\* failed, ends with the error response and has called no model.
C31_EmbedOnceNoRetry ==
  /\ [](q.embedCalls <= 1)
  /\ []((ValidQuery /\ q.pc \notin {"none", "recv"}) =>
          q.embedCalls = (IF KeyInvalid(apiKey) THEN 0 ELSE 1))
  /\ [](q.pc = "embed" => (q.queryCalls = 0 /\ q.tried = <<>>))
  /\ []((q.pc = "responded" /\ ValidQuery /\ q.queryCalls = 0) =>
          /\ q.response = SystemError
          /\ q.tried = <<>>
          /\ ~q.hasContext)
  /\ [][q.pc = "embed" =>
          /\ q'.embedCalls = q.embedCalls
          /\ q'.pc \in {"query", "responded"}]_vars

C31_Witness ==
  /\ q.pc = "responded"
  /\ q.token = "accepted"
  /\ q.question = [type |-> "string", text |-> <<W("abc", 3)>>]
  /\ apiKey = "valid"
  /\ collection = "handle"
  /\ q.embedCalls = 1
  /\ q.queryCalls = 0
  /\ q.tried = <<>>
  /\ q.response.status = 500

\* ------------------------------------------- the counter and the collection
\* every batch has been tallied: the run is at the final count or past it
RunCompleted == pc \in {"count", "x_summary", "x_count"}

\* the sum of the chunksProcessed of the results of the tasks k..Len(task)
RECURSIVE SumResults(_)
SumResults(k) ==
  IF k > Len(task) THEN 0
  ELSE task[k].result.chunksProcessed + SumResults(k + 1)

\* the entries of the collection that belong to the file of the given name
EntriesOf(name) == {id \in index.ids : id[1] = name}

\* C32: a write being all or nothing, a sub-batch reports the number of
\* entries its write added to the collection (0 when it failed or was not
\* issued) and the document's total grows by that count; at the end of a
\* completed run totalChunksAdded is the sum of the documents' totals, which
\* is the number of entries of the collection; a document recorded as failed
\* has contributed 0 and has no entry.
C32_CounterIsCollectionSize ==
  /\ [][\A k \in Tasks :
          (k \in DOMAIN task' /\ InSubBatch(task[k]) /\ ~Reported(k)
             /\ task'[k].batchAdded # -1) =>
            /\ task'[k].batchAdded
                 = Cardinality(index'.ids) - Cardinality(index.ids)
            /\ task'[k].totalAdded = task[k].totalAdded + task'[k].batchAdded]_vars
  /\ [](RunCompleted =>
          /\ totalChunksAdded = SumResults(1)
          /\ totalChunksAdded = Cardinality(index.ids)
          /\ \A n \in DOMAIN errorLog :
               /\ errorLog[n].chunksProcessed = 0
               /\ EntriesOf(errorLog[n].fileName) = {}
          /\ \A n \in DOMAIN successLog :
               successLog[n].chunksProcessed
                 = Cardinality(EntriesOf(successLog[n].fileName)))

C32_Witness ==
  /\ pc = "x_summary"
  /\ Len(errorLog) = 1
  /\ Len(successLog) = 2
  /\ totalChunksAdded = 2
  /\ Cardinality(index.ids) = 2
  /\ \E n \in 1..2 : successLog[n].chunksProcessed = 1 /\ successLog[n].totalChunks = 11

\* ------------------------------------------- the missing directory
\* C33: when the directory does not exist the run never starts a document
\* and can only end with exit code 1; it ends at the directory check
\* whenever the key is valid and the collection could be created, and at
\* that point the reset is over: the delete has been attempted, the
\* collection exists, is empty and holds none of the former entries.
C33_MissingDirectory ==
  /\ ~dirExists =>
       /\ pc \in {"main", "delete", "create", "x_config", "x_create", "x_nodir"}
       /\ pc \in {"x_config", "x_create", "x_nodir"} => ExitCode(pc) = 1
       /\ pc \notin {"x_config", "x_create", "x_nodir"} => ENABLED Next
       /\ task = <<>> /\ allFiles = <<>>
       /\ Statistics = <<0, <<>>, <<>>, 0>>
       /\ initLog.create = "ok" => pc = "x_nodir"
  /\ pc = "x_nodir" =>
       /\ ~dirExists
       /\ ~KeyInvalid(apiKey)
       /\ initLog.delete # "none"
       /\ initLog.create = "ok"
       /\ collection = "handle"
       /\ index = [exists |-> TRUE, ids |-> {}]

C33_Witness ==
  /\ pc = "x_nodir"
  /\ ~dirExists
  /\ initLog = [delete |-> "ok", create |-> "ok"]
  /\ index = [exists |-> TRUE, ids |-> {}]
  /\ dir # {}

\* ------------------------------------------- the auth middleware
\* C34: a request without a token, or with a token the verification
\* rejects, is answered 401 (success false, "No token" or "Invalid token")
\* at its first step, whatever its question and the state of the server; no
\* embedding call, no index query and no model call is ever issued for it.
C34_UnauthorizedNoCalls ==
  /\ [](q.pc # "none" /\ q.token # "accepted" =>
          /\ NoRemoteCall
          /\ q.pc \in {"recv", "responded"}
          /\ q.pc = "recv" => ENABLED QReceive
          /\ q.pc = "responded" =>
               /\ q.response.status = 401
               /\ ~q.response.success
               /\ ~q.response.hasAnswer
               /\ q.response.message
                    = (IF q.token = "none" THEN "No token" ELSE "Invalid token"))
  /\ []((q.pc = "responded" /\ q.response.status = 401) => q.token # "accepted")

C34_Witness ==
  /\ q.pc = "responded"
  /\ q.token = "rejected"
  /\ q.question = [type |-> "string", text |-> <<Sp, W("what is bail", 12), Nl>>]
  /\ apiKey = "valid"
  /\ collection = "handle"
  /\ q.response = ErrorResponse(401, "Invalid token")

C34_NoTokenWitness ==
  /\ q.pc = "responded"
  /\ q.token = "none"
  /\ q.question.type = "undefined"
  /\ q.response = ErrorResponse(401, "No token")

\* ------------------------------------------------ cleanMetadata alone
\* metadata values, each with its JavaScript type and its source text:
\* null, undefined, strings (one empty), numbers (0, an integer, NaN), the
\* booleans, a plain object, an array, an empty array, a Date, a bigint
MetaValues ==
  { [t |-> "null", v |-> "null"],
    [t |-> "undefined", v |-> "undefined"],
    [t |-> "string", v |-> ""],
    [t |-> "string", v |-> "a.pdf"],
    [t |-> "number", v |-> "0"],
    [t |-> "number", v |-> "11"],
    [t |-> "number", v |-> "NaN"],
    [t |-> "boolean", v |-> "false"],
    [t |-> "boolean", v |-> "true"],
    [t |-> "object", v |-> "{a: 1}"],
    [t |-> "array", v |-> "[1, 2]"],
    [t |-> "array", v |-> "[]"],
    [t |-> "date", v |-> "new Date(0)"],
    [t |-> "bigint", v |-> "7n"] }

\* the keys of the maps
MetaKeys == {"filename", "chunk_index", "processed_at"}

\* the metadata maps: every map from some of the keys to the values
MetaMaps == UNION {[K -> MetaValues] : K \in SUBSET MetaKeys}

\* String(value) of a value that is not a string, a number or a boolean
StringOf(value) ==
  CASE value = [t |-> "object", v |-> "{a: 1}"] -> "[object Object]"
    [] value = [t |-> "array", v |-> "[1, 2]"] -> "1,2"
    [] value = [t |-> "array", v |-> "[]"] -> ""
    [] value = [t |-> "date", v |-> "new Date(0)"] -> "Thu Jan 01 1970 00:00:00 GMT+0000"
    [] value = [t |-> "bigint", v |-> "7n"] -> "7"
    [] OTHER -> value.v

\* faulty variant of cleanMetadata: null and undefined are stored as strings
cleanMetadata_KeepsNull(metadata) ==
  [k \in DOMAIN metadata |->
     IF metadata[k].t \in {"string", "number", "boolean"} THEN metadata[k]
     ELSE [t |-> "string", v |-> StringOf(metadata[k])]]

\* lines 38-50
cleanMetadata(metadata) ==
  [k \in {x \in DOMAIN metadata : metadata[x].t \notin {"null", "undefined"}} |->
     IF metadata[k].t \in {"string", "number", "boolean"} THEN metadata[k]
     ELSE [t |-> "string", v |-> StringOf(metadata[k])]]

\* cleanMetadata is called on a map
CleanCall ==
  /\ q.pc = "meta"
  /\ q' = [q EXCEPT !.pc = "cleaned", !.once = cleanMetadata(q.metadata)]
  /\ ServerUnchanged

\* cleanMetadata is called on the map it returned
CleanAgain ==
  /\ q.pc = "cleaned"
  /\ q' = [q EXCEPT !.pc = "again", !.twice = cleanMetadata(q.once)]
  /\ ServerUnchanged

\* the ingestion script is about to clean a metadata map; q holds the call
MetaInit ==
  /\ apiKey = "valid"
  /\ dirExists = FALSE
  /\ dir = {}
  /\ pc = "batch"
  /\ index = [exists |-> TRUE, ids |-> {}]
  /\ collection = "handle"
  /\ allFiles = <<>>
  /\ i = 0
  /\ task = <<>>
  /\ processedCount = 0
  /\ successLog = <<>>
  /\ errorLog = <<>>
  /\ totalChunksAdded = 0
  /\ keyChecks = {"main"}
  /\ initLog = [delete |-> "ok", create |-> "ok"]
  /\ q \in {[pc |-> "meta", metadata |-> m, once |-> <<>>, twice |-> <<>>] :
              m \in MetaMaps}

MetaNext ==
  \/ CleanCall
  \/ CleanAgain

MetaSpec == MetaInit /\ [][MetaNext]_vars

\* the keys of a map whose value is neither null nor undefined
DefinedKeys(metadata) ==
  {k \in DOMAIN metadata :
     metadata[k] \notin {[t |-> "null", v |-> "null"],
                         [t |-> "undefined", v |-> "undefined"]}}

\* C35: the map cleanMetadata returns has exactly the input keys whose value
\* is neither null nor undefined; a string, a number or a boolean is kept as
\* it is, any other value becomes a string, its string form; cleaning the
\* result again changes nothing.
C35_CleanMetadata ==
  /\ q.pc \in {"cleaned", "again"} =>
       /\ DOMAIN q.once = DefinedKeys(q.metadata)
       /\ \A k \in DOMAIN q.once :
            IF q.metadata[k].t \in {"string", "number", "boolean"}
            THEN q.once[k] = q.metadata[k]
            ELSE q.once[k].t = "string" /\ q.once[k].v = StringOf(q.metadata[k])
       /\ \A k \in DOMAIN q.once : q.once[k].t \in {"string", "number", "boolean"}
  /\ q.pc = "again" => q.twice = q.once

C35_Witness ==
  /\ q.pc = "again"
  /\ q.metadata = [k \in MetaKeys |->
                     CASE k = "filename" -> [t |-> "string", v |-> "a.pdf"]
                       [] k = "chunk_index" -> [t |-> "null", v |-> "null"]
                       [] OTHER -> [t |-> "date", v |-> "new Date(0)"]]
  /\ DOMAIN q.once = {"filename", "processed_at"}
  /\ q.once["processed_at"].t = "string"
  /\ q.twice = q.once

====
